---- MODULE Spec2Model ----
(***************************************************************************)
(* The canonical motion front-end of src/src/emc/task/emccanon.cc: the     *)
(* canonical state (canon), the segment buffer (chained_points) and the    *)
(* interpreter list (interp_list), with one action per canonical call.     *)
(*                                                                         *)
(* Numbers.  The source computes in doubles; the model computes in exact   *)
(* integer arithmetic:                                                     *)
(*   - a length is an integer number of ticks of 0.01 (0.01 mm for an      *)
(*     internal length, 0.01 program unit for a program length); the       *)
(*     inputs are chosen so that every conversion is exact (an inch input  *)
(*     is a multiple of 5 ticks, because 25.4 = 254/10);                   *)
(*   - an angle is an integer number of degrees, a rotation a multiple of  *)
(*     90 degrees (so that sin and cos are -1, 0 or 1);                    *)
(*   - a velocity, acceleration or jerk is an integer (per second).        *)
(* tiny = 1e-7 is far below one tick, so "d < tiny" is "d < 1".            *)
(*                                                                         *)
(* Every handler is an operator from a world record                        *)
(*   W = [canon, pts, list, line, host, n]                                 *)
(* to the world record it leaves, so that a handler that calls another     *)
(* (SET_FEED_MODE calls STOP_SPEED_FEED_SYNCH, every one calls             *)
(* flush_segments) is the composition the source writes.  W.n is the       *)
(* number of the canonical call being served (a history value, stamped on  *)
(* the points and messages the call causes as seq).  A flushed move also   *)
(* records how many buffered points it replaces (fused) and the move a     *)
(* flush at the moment of its feed would have built (issue).               *)
(***************************************************************************)
EXTENDS Integers, Sequences, FiniteSets, TLC

VARIABLES
    canon,           \* static CanonConfig_t canon
    chained_points,  \* the static vector of chained_points()
    interp_list,     \* the messages appended to interp_list, oldest first
    interp_line,     \* the line number last given to interp_list.set_line_number
    emcStatus,       \* what the host reports: axis mask, units, axis limits, position
    ncalls,          \* history: how many canonical calls were made
    lastCall,        \* history: the canonical call made last
    returned,        \* what the last canonical call returned: [kind, val], with
                     \* kind "void", "value", (the process has ended) "SIGSEGV" or
                     \* "SIGABRT", or (the call has not returned) "running"
    probefile,       \* static FILE *probefile: is it open, and the lines of the file
    last_probed_position  \* the static of GET_EXTERNAL_PROBE_POSITION

vars == <<canon, chained_points, interp_list, interp_line, emcStatus, ncalls, lastCall,
          returned, probefile, last_probed_position>>

(***************************************************************************)
(* Bounds of the model                                                     *)
(***************************************************************************)
MaxCalls == 3        \* canonical calls in a behaviour of Spec
MaxFeedCalls == 4    \* canonical calls in a behaviour of SpecFeed
MaxRunCalls == 102   \* canonical calls in a behaviour of SpecRun
MaxRunPrefix == 2    \* the calls of SpecRun that may be an arc or a FINISH
MaxQueryCalls == 4   \* canonical calls in a behaviour of SpecQuery
MaxNurbsCalls == 3   \* canonical calls in a behaviour of SpecNurbs
MaxUnitsCalls == 4   \* canonical calls in a behaviour of SpecUnits
MaxSplineRetries == 3   \* passes of SPLINE_FEED through its label perturb that are followed

(***************************************************************************)
(* Program constants                                                       *)
(***************************************************************************)
huge == 1000000000   \* static const double huge = 1e9
\* the sizes of the input arrays and of the tool table, which the headers
\* define (motion.h, canon.hh); the source at hand only compares with them
EMCMOT_MAX_DIO == 64
EMCMOT_MAX_AIO == 16
CANON_POCKETS_MAX == 56
ChainLimit == 100    \* the literal of linkable's size test

AxisNames == {"x", "y", "z", "a", "b", "c", "u", "v", "w"}
LinearAxes == {"x", "y", "z", "u", "v", "w"}
AngularAxes == {"a", "b", "c"}
\* the axis number axis_valid and emcAxisGetMax* take
AxisNum == [x |-> 0, y |-> 1, z |-> 2, a |-> 3, b |-> 4, c |-> 5,
            u |-> 6, v |-> 7, w |-> 8]

Pose(x, y, z, a, b, c, u, v, w) ==
    [x |-> x, y |-> y, z |-> z, a |-> a, b |-> b, c |-> c,
     u |-> u, v |-> v, w |-> w]
ZeroPose == Pose(0, 0, 0, 0, 0, 0, 0, 0, 0)

Abs(n) == IF n < 0 THEN -n ELSE n
MIN(a, b) == IF a < b THEN a ELSE b

(***************************************************************************)
(* Units and offsets                                                       *)
(***************************************************************************)
\* the factor of FROM_PROG_LEN / TO_PROG_LEN, as the fraction num/den
ProgLenFactor(W) ==
    IF W.canon.lengthUnits = "CANON_UNITS_INCHES" THEN [num |-> 254, den |-> 10]
    ELSE IF W.canon.lengthUnits = "CANON_UNITS_CM" THEN [num |-> 10, den |-> 1]
    ELSE [num |-> 1, den |-> 1]

FROM_PROG_LEN(W, prog) == (prog * ProgLenFactor(W).num) \div ProgLenFactor(W).den
FROM_PROG_ANG(W, prog) == prog

\* GET_EXTERNAL_LENGTH_UNITS / GET_EXTERNAL_ANGLE_UNITS: the value returned,
\* a fraction num/den (the host's unit, 1.0 when it reports 0)
GET_EXTERNAL_LENGTH_UNITS(W) ==
    IF W.host.linearUnits.num = 0 THEN [num |-> 1, den |-> 1] ELSE W.host.linearUnits
GET_EXTERNAL_ANGLE_UNITS(W) ==
    IF W.host.angularUnits.num = 0 THEN [num |-> 1, den |-> 1] ELSE W.host.angularUnits

TO_EXT_LEN(W, mm) ==
    (mm * GET_EXTERNAL_LENGTH_UNITS(W).num) \div GET_EXTERNAL_LENGTH_UNITS(W).den
TO_EXT_ANG(W, deg) ==
    (deg * GET_EXTERNAL_ANGLE_UNITS(W).num) \div GET_EXTERNAL_ANGLE_UNITS(W).den
FROM_EXT_LEN(W, ext) ==
    (ext * GET_EXTERNAL_LENGTH_UNITS(W).den) \div GET_EXTERNAL_LENGTH_UNITS(W).num
FROM_EXT_ANG(W, ext) ==
    (ext * GET_EXTERNAL_ANGLE_UNITS(W).den) \div GET_EXTERNAL_ANGLE_UNITS(W).num

\* the pose whose coordinate on axis ax is f[ax]
MkPose(f) ==
    Pose(f["x"], f["y"], f["z"], f["a"], f["b"], f["c"], f["u"], f["v"], f["w"])

from_prog(W, p) ==
    MkPose([ax \in AxisNames |->
        IF ax \in AngularAxes THEN FROM_PROG_ANG(W, p[ax]) ELSE FROM_PROG_LEN(W, p[ax])])

to_ext_pose(W, p) ==
    MkPose([ax \in AxisNames |->
        IF ax \in AngularAxes THEN TO_EXT_ANG(W, p[ax]) ELSE TO_EXT_LEN(W, p[ax])])

\* cos and sin of a multiple of 90 degrees
Cos90(theta) ==
    LET t == theta % 360 IN IF t = 0 THEN 1 ELSE IF t = 180 THEN -1 ELSE 0
Sin90(theta) ==
    LET t == theta % 360 IN IF t = 90 THEN 1 ELSE IF t = 270 THEN -1 ELSE 0

\* rotate(x, y, theta): the pair it leaves in x and y
rotate(x, y, theta) ==
    [x |-> x * Cos90(theta) - y * Sin90(theta),
     y |-> x * Sin90(theta) + y * Cos90(theta)]

\* offset_x .. offset_w
offset(W, ax, val) == val + W.canon.programOrigin[ax] + W.canon.toolOffset[ax]

rotate_and_offset_pos(W, p) ==
    LET r == rotate(p.x, p.y, W.canon.xy_rotation)
        q == [p EXCEPT !.x = r.x, !.y = r.y]
    IN  MkPose([ax \in AxisNames |-> offset(W, ax, q[ax])])

\* unoffset_and_unrotate_pos turning by canon.xy_rotation, not against it
unoffset_and_unrotate_pos_turned(W, pos) ==
    LET un(ax) == pos[ax] - W.canon.programOrigin[ax] - W.canon.toolOffset[ax]
        r == rotate(un("x"), un("y"), W.canon.xy_rotation)
    IN  MkPose([ax \in AxisNames |->
            IF ax = "x" THEN r.x ELSE IF ax = "y" THEN r.y ELSE un(ax)])

\* unoffset_x .. unoffset_w, then rotate(res.x, res.y, -canon.xy_rotation)
unoffset_and_unrotate_pos(W, pos) ==
    LET un(ax) == pos[ax] - W.canon.programOrigin[ax] - W.canon.toolOffset[ax]
        r == rotate(un("x"), un("y"), -W.canon.xy_rotation)
    IN  MkPose([ax \in AxisNames |->
            IF ax = "x" THEN r.x ELSE IF ax = "y" THEN r.y ELSE un(ax)])

\* to_prog(e): TO_PROG_LEN on the lengths, TO_PROG_ANG on the angles
to_prog(W, e) ==
    MkPose([ax \in AxisNames |->
        IF ax \in AngularAxes THEN e[ax]
        ELSE (e[ax] * ProgLenFactor(W).den) \div ProgLenFactor(W).num])

axis_valid(W, n) == n \in W.host.axis_mask

canonUpdateEndPoint(W, p) == [W EXCEPT !.canon.endPoint = p]

(***************************************************************************)
(* The interpreter list                                                    *)
(***************************************************************************)
\* a message of the given NML type, every other field at its default (issue
\* is the default of a message that is not a flushed feed)
Msg(type) ==
    [type |-> type, motion |-> "", end |-> ZeroPose, vel |-> 0, ini_maxvel |-> 0,
     acc |-> 0, ini_maxjerk |-> 0, feed_mode |-> 0, arg |-> 0, factor |-> 0,
     xoffset |-> 0, center |-> [x |-> 0, y |-> 0, z |-> 0],
     normal |-> [x |-> 0, y |-> 0, z |-> 0], line |-> 0, seq |-> 0, at |-> 0,
     fused |-> 0,
     nurbs_block |-> [nr_of_ctrl_pts |-> 0, nr_of_knots |-> 0, order |-> 0, curve_len |-> 0,
                      nr_of_uofl_ctrl_pts |-> 0, nr_of_uofl_knots |-> 0],
     issue |-> [moves |-> FALSE, emit |-> FALSE, feed_mode |-> 0, end |-> ZeroPose,
                vel |-> 0, ini_maxvel |-> 0, ini_maxjerk |-> 0, acc |-> 0]]

\* interp_list.set_line_number(line)
set_line_number(W, line) == [W EXCEPT !.line = line]

\* interp_list.append(msg): the message gets the list's line number.  History:
\* at is the call that appends it, seq the call that caused it (the call
\* being served, unless the message says otherwise)
append(W, msg) ==
    [W EXCEPT !.list = Append(@, [msg EXCEPT !.line = W.line, !.at = W.n,
                                             !.seq = IF msg.seq = 0 THEN W.n ELSE msg.seq])]

(***************************************************************************)
(* Kinematic envelope                                                      *)
(***************************************************************************)
\* emcAxisGetMaxVelocity, emcAxisGetMaxAcceleration or emcAxisGetMaxJerk of
\* axis n: the one of the three that limit names
emcAxisGetMax(W, limit, n) ==
    CASE limit = "Velocity" -> W.host.max_velocity[n]
      [] limit = "Acceleration" -> W.host.max_acceleration[n]
      [] limit = "Jerk" -> W.host.max_jerk[n]

\* AxisTravel without the test of the axis mask
AxisTravel_unmasked(W, p, ax) ==
    LET d == Abs(p[ax] - W.canon.endPoint[ax])
    IN  IF d < 1 THEN 0 ELSE d

\* the absolute travel of axis ax from canon.endPoint to p, zeroed when the axis
\* is not in the mask or the travel is below tiny
AxisTravel(W, p, ax) ==
    LET d == Abs(p[ax] - W.canon.endPoint[ax])
    IN  IF ~axis_valid(W, AxisNum[ax]) \/ d < 1 THEN 0 ELSE d

\* "Figure out what kind of move we're making": the flags the three
\* getStraight* functions leave in canon.cartesian_move and canon.angular_move
cartesian_move_of(W, p) == ~(\A ax \in LinearAxes : AxisTravel(W, p, ax) <= 0)
angular_move_of(W, p) == ~(\A ax \in AngularAxes : AxisTravel(W, p, ax) <= 0)

SetMoveFlags(W, p) ==
    [W EXCEPT !.canon.cartesian_move = cartesian_move_of(W, p),
              !.canon.angular_move = angular_move_of(W, p)]

\* (dx ? limit(0) : huge) for axis ax, limit one of the emcAxisGetMax*
AxisLimit(W, p, ax, limit) ==
    IF AxisTravel(W, p, ax) # 0 THEN emcAxisGetMax(W, limit, AxisNum[ax]) ELSE huge

\* the least member of a set of numbers: the nested MIN, MIN3 and MIN4 of the
\* source over the axes of one kind
MinOf(S) == CHOOSE m \in S : \A n \in S : m <= n

\* FROM_EXT_LEN(MIN4(MIN3(x, y, z), u, v, w)) and FROM_EXT_ANG(MIN3(a, b, c))
LinearLimit(W, p, limit) ==
    FROM_EXT_LEN(W, MinOf({AxisLimit(W, p, ax, limit) : ax \in LinearAxes}))
AngularLimit(W, p, limit) ==
    FROM_EXT_ANG(W, MinOf({AxisLimit(W, p, ax, limit) : ax \in AngularAxes}))

\* the three branches shared by getStraightJerk, getStraightAcceleration and
\* getStraightVelocity; nowhere is the value the function has when no axis moves
StraightLimit(W, p, limit, nowhere) ==
    LET branch(cart, ang, linear, angular) ==
            IF cart /\ ~ang THEN linear
            ELSE IF ~cart /\ ang THEN angular
            ELSE IF cart /\ ang THEN MIN(linear, angular)
            ELSE nowhere
    IN  branch(cartesian_move_of(W, p), angular_move_of(W, p),
               LinearLimit(W, p, limit), AngularLimit(W, p, limit))

getStraightJerk(W, p) == StraightLimit(W, p, "Jerk", 0)

getStraightAcceleration(W, p) == StraightLimit(W, p, "Acceleration", 0)

\* vel is not initialised when no axis moves: g is the value the stack holds
getStraightVelocity(W, p, g) ==
    MIN(StraightLimit(W, p, "Velocity", g), W.canon.linearFeedRate)

\* toExtVel / toExtAcc, reading the flags of W
toExtVel(W, vel) ==
    IF W.canon.cartesian_move /\ ~W.canon.angular_move THEN TO_EXT_LEN(W, vel)
    ELSE IF ~W.canon.cartesian_move /\ W.canon.angular_move THEN TO_EXT_ANG(W, vel)
    ELSE TO_EXT_LEN(W, vel)
toExtAcc(W, acc) == toExtVel(W, acc)

\* the feed cap of flush_segments and STRAIGHT_PROBE
FeedCap(W, vel) ==
    IF W.canon.cartesian_move /\ ~W.canon.angular_move
    THEN (IF vel > W.canon.linearFeedRate THEN W.canon.linearFeedRate ELSE vel)
    ELSE IF ~W.canon.cartesian_move /\ W.canon.angular_move
    THEN (IF vel > W.canon.angularFeedRate THEN W.canon.angularFeedRate ELSE vel)
    ELSE IF W.canon.cartesian_move /\ W.canon.angular_move
    THEN (IF vel > W.canon.linearFeedRate THEN W.canon.linearFeedRate ELSE vel)
    ELSE vel

(***************************************************************************)
(* The segment buffer                                                      *)
(***************************************************************************)
\* what the stack can hold where getStraightVelocity leaves vel unassigned
Garbage == {0, huge}

\* the EMC_TRAJ_LINEAR_MOVE flush_segments builds for the point p (internal
\* units) in the world W, and whether it passes the (vel && acc) || synched test
linearMoveOf(W, p, g) ==
    LET move(F, ini_maxvel, vel, acc) ==
            [moves |-> F.canon.cartesian_move \/ F.canon.angular_move,
             emit |-> (vel # 0 /\ acc # 0) \/ W.canon.synched,
             feed_mode |-> W.canon.feed_mode,
             end |-> to_ext_pose(W, p),
             vel |-> toExtVel(F, vel),
             ini_maxvel |-> toExtVel(F, ini_maxvel),
             ini_maxjerk |-> TO_EXT_LEN(W, getStraightJerk(W, p)),
             acc |-> toExtAcc(F, acc)]
        capped(F, ini_maxvel) ==
            move(F, ini_maxvel, FeedCap(F, ini_maxvel), getStraightAcceleration(W, p))
    IN  capped(SetMoveFlags(W, p), getStraightVelocity(W, p, g))

\* flush_segments without chained_points().clear()
flush_segments_kept(W, g) ==
    IF W.pts = <<>> THEN W
    ELSE
      LET pos == W.pts[Len(W.pts)]
          linearMoveMsg(m) ==
              [Msg("EMC_TRAJ_LINEAR_MOVE") EXCEPT
                  !.motion = "EMC_MOTION_TYPE_FEED", !.feed_mode = m.feed_mode,
                  !.end = m.end, !.vel = m.vel, !.ini_maxvel = m.ini_maxvel,
                  !.ini_maxjerk = m.ini_maxjerk, !.acc = m.acc,
                  !.seq = pos.seq, !.fused = Len(W.pts), !.issue = pos.issue]
          send(F, m) ==
              IF m.emit
              THEN append(set_line_number(F, pos.line_no), linearMoveMsg(m))
              ELSE F
      IN  canonUpdateEndPoint(send(SetMoveFlags(W, pos.p), linearMoveOf(W, pos.p, g)), pos.p)

\* flush_segments without the (vel && acc) || synched test
flush_segments_all(W, g) ==
    IF W.pts = <<>> THEN W
    ELSE
      LET pos == W.pts[Len(W.pts)]
          linearMoveMsg(m) ==
              [Msg("EMC_TRAJ_LINEAR_MOVE") EXCEPT
                  !.motion = "EMC_MOTION_TYPE_FEED", !.feed_mode = m.feed_mode,
                  !.end = m.end, !.vel = m.vel, !.ini_maxvel = m.ini_maxvel,
                  !.ini_maxjerk = m.ini_maxjerk, !.acc = m.acc,
                  !.seq = pos.seq, !.fused = Len(W.pts), !.issue = pos.issue]
          send(F, m) == append(set_line_number(F, pos.line_no), linearMoveMsg(m))
      IN  [canonUpdateEndPoint(send(SetMoveFlags(W, pos.p), linearMoveOf(W, pos.p, g)), pos.p)
              EXCEPT !.pts = <<>>]

flush_segments(W, g) ==
    IF W.pts = <<>> THEN W
    ELSE
      LET pos == W.pts[Len(W.pts)]
          linearMoveMsg(m) ==
              [Msg("EMC_TRAJ_LINEAR_MOVE") EXCEPT
                  !.motion = "EMC_MOTION_TYPE_FEED", !.feed_mode = m.feed_mode,
                  !.end = m.end, !.vel = m.vel, !.ini_maxvel = m.ini_maxvel,
                  !.ini_maxjerk = m.ini_maxjerk, !.acc = m.acc,
                  !.seq = pos.seq, !.fused = Len(W.pts), !.issue = pos.issue]
          send(F, m) ==
              IF m.emit
              THEN append(set_line_number(F, pos.line_no), linearMoveMsg(m))
              ELSE F
      IN  [canonUpdateEndPoint(send(SetMoveFlags(W, pos.p), linearMoveOf(W, pos.p, g)), pos.p)
              EXCEPT !.pts = <<>>]

\* Products beyond 32 bits, as six limbs of 10 bits, least significant first
\* (the source computes in doubles, where these products are exact).
Limbs(a) == <<a % 1024, (a \div 1024) % 1024, a \div 1048576>>

WideMul(a, b) ==
    LET x == Limbs(Abs(a))
        y == Limbs(Abs(b))
    IN  <<x[1] * y[1], x[1] * y[2] + x[2] * y[1],
          x[1] * y[3] + x[2] * y[2] + x[3] * y[1],
          x[2] * y[3] + x[3] * y[2], x[3] * y[3], 0>>

WideAdd(p, q) == [k \in 1..6 |-> p[k] + q[k]]

RECURSIVE Carry(_, _, _)
\* the limbs of p from k on, each below 1024 except the last, given the carry c
Carry(p, k, c) ==
    IF k = 6 THEN <<p[6] + c>>
    ELSE <<(p[k] + c) % 1024>> \o Carry(p, k + 1, (p[k] + c) \div 1024)

RECURSIVE LimbsGT(_, _, _)
\* p > q for carried limbs, comparing from limb k down
LimbsGT(p, q, k) ==
    IF k = 0 THEN FALSE
    ELSE IF p[k] # q[k] THEN p[k] > q[k]
    ELSE LimbsGT(p, q, k - 1)

WideGT(p, q) == LimbsGT(Carry(p, 1, 0), Carry(q, 1, 0), 6)

\* c1^2 + c2^2 + c3^2
SumSq(c1, c2, c3) == WideAdd(WideAdd(WideMul(c1, c1), WideMul(c2, c2)), WideMul(c3, c3))

dot(M, P) == M.x * P.x + M.y * P.y + M.z * P.z

\* D > tolerance, for D = mag(P - (B + t0 * M)) and t0 = dot(M, P-B) / dot(M, M)
\* clamped to [0, 1].  With n = dot(M, P-B) and d = dot(M, M) > 0:
\*   n <= 0:  t0 = 0 and D = |P-B|;     n >= d:  t0 = 1 and D = |P-B-M|;
\*   else D^2 = |P-B|^2 - n^2/d = |M x (P-B)|^2 / d  (Lagrange's identity),
\* so D > tolerance iff |M x (P-B)|^2 > tolerance^2 * d.
TooFar(B, M, P, tolerance) ==
    LET Q == [x |-> P.x - B.x, y |-> P.y - B.y, z |-> P.z - B.z]
        exceeds(c, scale) ==
            WideGT(SumSq(c.x, c.y, c.z), WideMul(tolerance * tolerance, scale))
        clamp(n, d) ==
            IF n <= 0 THEN exceeds(Q, 1)
            ELSE IF n >= d
                 THEN exceeds([x |-> Q.x - M.x, y |-> Q.y - M.y, z |-> Q.z - M.z], 1)
            ELSE exceeds([x |-> M.y * Q.z - M.z * Q.y, y |-> M.z * Q.x - M.x * Q.z,
                          z |-> M.x * Q.y - M.y * Q.x], d)
    IN  IF tolerance < 0 THEN TRUE ELSE clamp(dot(M, Q), dot(M, M))

\* linkable without the test of the motion mode and the tolerance
linkable_always(W, p) ==
    LET pos == W.pts[Len(W.pts)].p
        B == W.canon.endPoint
        M == [x |-> p.x - B.x, y |-> p.y - B.y, z |-> p.z - B.z]
    IN  IF Len(W.pts) > ChainLimit THEN FALSE
        ELSE IF \E ax \in {"a", "b", "c", "u", "v", "w"} : p[ax] # pos[ax] THEN FALSE
        ELSE IF p.x = B.x /\ p.y = B.y /\ p.z = B.z THEN FALSE
        ELSE \A i \in 1..Len(W.pts) :
                 ~TooFar(B, M, W.pts[i].p, W.canon.naivecamTolerance)

linkable(W, p) ==
    LET pos == W.pts[Len(W.pts)].p
        B == W.canon.endPoint
        M == [x |-> p.x - B.x, y |-> p.y - B.y, z |-> p.z - B.z]
    IN  IF W.canon.motionMode # "CANON_CONTINUOUS" \/ W.canon.naivecamTolerance = 0
        THEN FALSE
        ELSE IF Len(W.pts) > ChainLimit THEN FALSE
        ELSE IF \E ax \in {"a", "b", "c", "u", "v", "w"} : p[ax] # pos[ax] THEN FALSE
        ELSE IF p.x = B.x /\ p.y = B.y /\ p.z = B.z THEN FALSE
        ELSE \A i \in 1..Len(W.pts) :
                 ~TooFar(B, M, W.pts[i].p, W.canon.naivecamTolerance)

\* a buffered point: struct pt, with the history of the call that pushed it
\* (seq, and the move a flush at that moment would have built)
pt(W, line_number, p, g) ==
    [p |-> p, line_no |-> line_number, seq |-> W.n, issue |-> linearMoveOf(W, p, g)]

\* see_segment without the flush before a point that is not linkable
see_segment_unflushed(W, line_number, p, g) ==
    LET changed_abc == \E ax \in {"a", "b", "c"} : p[ax] # W.canon.endPoint[ax]
        changed_uvw == \E ax \in {"u", "v", "w"} : p[ax] # W.canon.endPoint[ax]
        push(W1) == [W1 EXCEPT !.pts = Append(@, pt(W1, line_number, p, g))]
        pushed(W2) == IF changed_abc \/ changed_uvw THEN flush_segments(W2, g) ELSE W2
    IN  pushed(push(W))

see_segment(W, line_number, p, g) ==
    LET changed_abc == \E ax \in {"a", "b", "c"} : p[ax] # W.canon.endPoint[ax]
        changed_uvw == \E ax \in {"u", "v", "w"} : p[ax] # W.canon.endPoint[ax]
        push(W1) == [W1 EXCEPT !.pts = Append(@, pt(W1, line_number, p, g))]
        pushed(W2) == IF changed_abc \/ changed_uvw THEN flush_segments(W2, g) ELSE W2
    IN  pushed(push(IF W.pts # <<>> /\ ~linkable(W, p) THEN flush_segments(W, g) ELSE W))

FINISH(W, g) == flush_segments(W, g)

STRAIGHT_FEED(W, line_number, prog, g) ==
    see_segment(W, line_number, rotate_and_offset_pos(W, from_prog(W, prog)), g)

(***************************************************************************)
(* Representation and machining attributes                                 *)
(***************************************************************************)

\* the tail shared by send_origin_msg and USE_TOOL_LENGTH_OFFSET: the
\* EMC_SPINDLE_SPEED message when canon.css_maximum is set, then the message msg
cssThen(W, msg) ==
    append(IF W.canon.css_maximum # 0
           THEN append(W, [Msg("EMC_SPINDLE_SPEED") EXCEPT
                              !.arg = W.canon.css_maximum,
                              !.factor = W.canon.css_numerator,
                              !.xoffset = TO_EXT_LEN(W, W.canon.programOrigin.x
                                                        + W.canon.toolOffset.x)])
           ELSE W,
           msg)

send_origin_msg(W, g) ==
    LET send(W1) ==
            cssThen(W1, [Msg("EMC_TRAJ_SET_ORIGIN") EXCEPT
                            !.end = to_ext_pose(W1, W1.canon.programOrigin)])
    IN  send(flush_segments(W, g))

SET_XY_ROTATION(W, t) ==
    [append(W, [Msg("EMC_TRAJ_SET_ROTATION") EXCEPT !.arg = t])
        EXCEPT !.canon.xy_rotation = t]

SET_ORIGIN_OFFSETS(W, prog, g) ==
    send_origin_msg([W EXCEPT !.canon.programOrigin = from_prog(W, prog)], g)

USE_LENGTH_UNITS(W, in_unit) == [W EXCEPT !.canon.lengthUnits = in_unit]

SET_MOTION_CONTROL_MODE(W, mode, tolerance, g) ==
    LET setTermCondMsg(W2) ==
            IF mode = "CANON_CONTINUOUS"
            THEN [Msg("EMC_TRAJ_SET_TERM_COND") EXCEPT
                     !.motion = "EMC_TRAJ_TERM_COND_BLEND",
                     !.arg = TO_EXT_LEN(W2, W2.canon.motionTolerance)]
            ELSE [Msg("EMC_TRAJ_SET_TERM_COND") EXCEPT
                     !.motion = "EMC_TRAJ_TERM_COND_STOP"]
        send(W2) == append(W2, setTermCondMsg(W2))
        set(W1) == send([W1 EXCEPT !.canon.motionMode = mode,
                                   !.canon.motionTolerance = FROM_PROG_LEN(W1, tolerance)])
    IN  set(flush_segments(W, g))

SET_NAIVECAM_TOLERANCE(W, tolerance) ==
    [W EXCEPT !.canon.naivecamTolerance = FROM_PROG_LEN(W, tolerance)]

SELECT_PLANE(W, in_plane) == [W EXCEPT !.canon.activePlane = in_plane]

START_SPEED_FEED_SYNCH(W, feed_per_revolution, velocity_mode, g) ==
    LET send(W1) ==
            append(W1, [Msg("EMC_TRAJ_SET_SPINDLESYNC") EXCEPT
                           !.arg = TO_EXT_LEN(W1, FROM_PROG_LEN(W1, feed_per_revolution)),
                           !.motion = IF velocity_mode THEN "velocity_mode" ELSE ""])
    IN  [send(flush_segments(W, g)) EXCEPT !.canon.synched = TRUE]

STOP_SPEED_FEED_SYNCH(W, g) ==
    [append(flush_segments(W, g), Msg("EMC_TRAJ_SET_SPINDLESYNC"))
        EXCEPT !.canon.synched = FALSE]

SET_FEED_MODE(W, mode, g) ==
    LET set(W1) == IF mode = 0 THEN STOP_SPEED_FEED_SYNCH(W1, g) ELSE W1
    IN  set([flush_segments(W, g) EXCEPT !.canon.feed_mode = mode])

\* rate is a multiple of 60, so that rate / 60.0 is exact
SET_FEED_RATE(W, rate, g) ==
    IF W.canon.feed_mode # 0
    THEN [START_SPEED_FEED_SYNCH(W, rate, TRUE, g) EXCEPT !.canon.linearFeedRate = rate]
    ELSE
      LET set(newLinearFeedRate, newAngularFeedRate) ==
              [(IF newLinearFeedRate # W.canon.linearFeedRate
                   \/ newAngularFeedRate # W.canon.angularFeedRate
                THEN flush_segments(W, g) ELSE W)
                  EXCEPT !.canon.linearFeedRate = newLinearFeedRate,
                         !.canon.angularFeedRate = newAngularFeedRate]
      IN  set(FROM_PROG_LEN(W, rate \div 60), FROM_PROG_ANG(W, rate \div 60))

USE_TOOL_LENGTH_OFFSET(W, offs, g) ==
    LET send(W1) ==
            cssThen(W1, [Msg("EMC_TRAJ_SET_OFFSET") EXCEPT
                            !.end = to_ext_pose(W1, W1.canon.toolOffset)])
    IN  send([flush_segments(W, g) EXCEPT !.canon.toolOffset = from_prog(W, offs)])

(***************************************************************************)
(* Machining functions                                                     *)
(***************************************************************************)
\* a motion message with its kinematic fields
moveMsg(type, motion, feed_mode, end, vel, ini_maxvel, acc, ini_maxjerk) ==
    [Msg(type) EXCEPT !.motion = motion, !.feed_mode = feed_mode, !.end = end,
                      !.vel = vel, !.ini_maxvel = ini_maxvel, !.acc = acc,
                      !.ini_maxjerk = ini_maxjerk]

\* unsynchedMove with canon.synched, not canon.feed_mode, deciding whether the
\* synchronisation is stopped and started again
unsynchedMove_synched(F, line_number, send, msg, g) ==
    LET resynch(was_synched, W3) ==
            IF was_synched
            THEN START_SPEED_FEED_SYNCH(W3, W3.canon.linearFeedRate, TRUE, g) ELSE W3
        emit(W2) == IF send THEN append(set_line_number(W2, line_number), msg) ELSE W2
    IN  resynch(F.canon.synched,
                emit(IF F.canon.synched THEN STOP_SPEED_FEED_SYNCH(F, g) ELSE F))

\* unsynchedMove that stops the synchronisation and does not start it again
unsynchedMove_stopped(F, line_number, send, msg, g) ==
    LET emit(W2) == IF send THEN append(set_line_number(W2, line_number), msg) ELSE W2
    IN  emit(IF F.canon.feed_mode # 0 THEN STOP_SPEED_FEED_SYNCH(F, g) ELSE F)

\* the move of STRAIGHT_TRAVERSE and CHANGE_TOOL: spindle synchronisation is
\* stopped around the message, which is sent when vel and acc are non-zero,
\* under the line number line_number (CHANGE_TOOL leaves the line as it is)
unsynchedMove(F, line_number, send, msg, g) ==
    LET resynch(old_feed_mode, W3) ==
            IF old_feed_mode # 0
            THEN START_SPEED_FEED_SYNCH(W3, W3.canon.linearFeedRate, TRUE, g) ELSE W3
        emit(W2) == IF send THEN append(set_line_number(W2, line_number), msg) ELSE W2
    IN  resynch(F.canon.feed_mode,
                emit(IF F.canon.feed_mode # 0 THEN STOP_SPEED_FEED_SYNCH(F, g) ELSE F))

STRAIGHT_TRAVERSE(W, line_number, prog, g) ==
    LET move(F, p, vel, acc) ==
            unsynchedMove(F, line_number, vel # 0 /\ acc # 0,
                moveMsg("EMC_TRAJ_LINEAR_MOVE", "EMC_MOTION_TYPE_TRAVERSE", 0,
                        to_ext_pose(F, p), toExtVel(F, vel), toExtVel(F, vel),
                        toExtAcc(F, acc), TO_EXT_LEN(F, getStraightJerk(F, p))), g)
        envelope(W1, p) ==
            canonUpdateEndPoint(
                move(SetMoveFlags(W1, p), p, getStraightVelocity(W1, p, g),
                     getStraightAcceleration(W1, p)), p)
        target(W1) == envelope(W1, rotate_and_offset_pos(W1, from_prog(W1, prog)))
    IN  target(flush_segments(W, g))

\* RIGID_TAP ending, as the other moves do, with canonUpdateEndPoint
RIGID_TAP_moved(W, line_number, prog, g) ==
    LET send(W1, msg, vel, acc) ==
            IF vel # 0 /\ acc # 0
            THEN append(set_line_number(W1, line_number), msg) ELSE W1
        move(F, p, vel, acc) ==
            canonUpdateEndPoint(
                send(flush_segments(F, g),
                     moveMsg("EMC_TRAJ_RIGID_TAP", "", 0, to_ext_pose(F, p),
                             toExtVel(F, vel), toExtVel(F, vel), toExtAcc(F, acc), 0),
                     vel, acc), p)
        envelope(p) ==
            move(SetMoveFlags(W, p), p, getStraightVelocity(W, p, g),
                 getStraightAcceleration(W, p))
        target(q) == envelope([W.canon.endPoint EXCEPT !.x = q.x, !.y = q.y, !.z = q.z])
    IN  target(rotate_and_offset_pos(W, from_prog(W, prog)))

\* x, y, z of the pose are the target; the other axes inherit canon.endPoint
RIGID_TAP(W, line_number, prog, g) ==
    LET send(W1, msg, vel, acc) ==
            IF vel # 0 /\ acc # 0
            THEN append(set_line_number(W1, line_number), msg) ELSE W1
        move(F, p, vel, acc) ==
            send(flush_segments(F, g),
                 moveMsg("EMC_TRAJ_RIGID_TAP", "", 0, to_ext_pose(F, p), toExtVel(F, vel),
                         toExtVel(F, vel), toExtAcc(F, acc), 0), vel, acc)
        envelope(p) ==
            move(SetMoveFlags(W, p), p, getStraightVelocity(W, p, g),
                 getStraightAcceleration(W, p))
        target(q) == envelope([W.canon.endPoint EXCEPT !.x = q.x, !.y = q.y, !.z = q.z])
    IN  target(rotate_and_offset_pos(W, from_prog(W, prog)))

STRAIGHT_PROBE(W, line_number, prog, probe_type, g) ==
    LET send(F, p, ini_maxvel, vel, acc) ==
            IF vel # 0 /\ acc # 0
            THEN append(set_line_number(F, line_number),
                        [moveMsg("EMC_TRAJ_PROBE", "EMC_MOTION_TYPE_PROBING", 0,
                                 to_ext_pose(F, p), toExtVel(F, vel),
                                 toExtVel(F, ini_maxvel), toExtAcc(F, acc), 0)
                            EXCEPT !.arg = probe_type])
            ELSE F
        capped(F, p, ini_maxvel, acc) ==
            canonUpdateEndPoint(send(F, p, ini_maxvel, FeedCap(F, ini_maxvel), acc), p)
        envelope(W1, p) ==
            capped(SetMoveFlags(W1, p), p, getStraightVelocity(W1, p, g),
                   getStraightAcceleration(W1, p))
    IN  envelope(flush_segments(W, g), rotate_and_offset_pos(W, from_prog(W, prog)))

\* TOOL_CHANGE_POSITION in internal units
from_ext_pose(W, pos) ==
    MkPose([ax \in AxisNames |->
        IF ax \in AngularAxes THEN FROM_EXT_ANG(W, pos[ax]) ELSE FROM_EXT_LEN(W, pos[ax])])

\* linearMoveMsg.ini_maxjerk is never assigned here: g is what the field holds
CHANGE_TOOL(W, slot, g) ==
    LET move(F, p, vel, acc) ==
            unsynchedMove(F, F.line, vel # 0 /\ acc # 0,
                moveMsg("EMC_TRAJ_LINEAR_MOVE", "EMC_MOTION_TYPE_TOOLCHANGE", 0,
                        to_ext_pose(F, p), toExtVel(F, vel), toExtVel(F, vel),
                        toExtAcc(F, acc), g), g)
        envelope(W1, p) ==
            canonUpdateEndPoint(
                move(SetMoveFlags(W1, p), p, getStraightVelocity(W1, p, g),
                     getStraightAcceleration(W1, p)), p)
        position(W1) ==
            IF W1.host.HAVE_TOOL_CHANGE_POSITION
            THEN envelope(W1, from_ext_pose(W1, W1.host.TOOL_CHANGE_POSITION)) ELSE W1
    IN  append(position(flush_segments(W, g)), [Msg("EMC_TOOL_LOAD") EXCEPT !.arg = slot])


(***************************************************************************)
(* Arcs                                                                    *)
(***************************************************************************)
get_last_pos(W) ==
    IF W.pts = <<>> THEN W.canon.endPoint ELSE W.pts[Len(W.pts)].p

\* atan2(y, x) in degrees, for the vectors whose angle is a multiple of 90
Atan2Deg(y, x) ==
    CASE x = 0 /\ y = 0 -> 0
      [] x > 0 /\ y = 0 -> 0
      [] x = 0 /\ y > 0 -> 90
      [] x < 0 /\ y = 0 -> 180
      [] x = 0 /\ y < 0 -> -90

\* th2 after the two corrections by a full turn
ChordTh2(th1, th2, rotation) ==
    IF rotation < 0
    THEN LET t == IF th2 - th1 >= 0 THEN th2 - 360 ELSE th2
         IN  IF t - th1 >= 0 THEN t - 360 ELSE t
    ELSE LET t == IF th2 - th1 <= 0 THEN th2 + 360 ELSE th2
         IN  IF t - th1 <= 0 THEN t + 360 ELSE t

\* the arcs chord_deviation is computed exactly for: the start and the end lie
\* on the axes through the centre, and the radius is 0 or the included angle
\* is a multiple of 180 degrees
ChordExact(sx, sy, ex, ey, cx, cy, rotation) ==
    /\ (sx = cx \/ sy = cy) /\ (ex = cx \/ ey = cy)
    /\ \/ (sx = cx /\ sy = cy)
       \/ LET th1 == Atan2Deg(sy - cy, sx - cx)
              th2 == ChordTh2(th1, Atan2Deg(ey - cy, ex - cx), rotation)
          IN  Abs(th2 - th1) % 180 = 0

\* chord_deviation: the value returned (dev) and the midpoint left in mx, my
chord_deviation(sx, sy, ex, ey, cx, cy, rotation) ==
    LET th1 == Atan2Deg(sy - cy, sx - cx)
        th2 == ChordTh2(th1, Atan2Deg(ey - cy, ex - cx), rotation)
        r == Abs(sy - cy) + Abs(sx - cx)
        included == Abs(th2 - th1)
        mid == (th2 + th1) \div 2
    IN  [mx |-> cx + r * Cos90(mid + 360), my |-> cy + r * Sin90(mid + 360),
         dev |-> r * (1 - Cos90(included \div 2))]

\* the axes of the active plane: first and second in the plane, axial across it
PlaneAxes(plane) ==
    IF plane = "CANON_PLANE_YZ" THEN [first |-> "y", second |-> "z", axial |-> "x"]
    ELSE IF plane = "CANON_PLANE_XZ" THEN [first |-> "z", second |-> "x", axial |-> "y"]
    ELSE [first |-> "x", second |-> "y", axial |-> "z"]

\* MIN3((du ? limit(6) : 1e9), ...) converted, for the axes uvw and abc
ArcOtherLimit(W, p, limit) ==
    MIN(FROM_EXT_LEN(W, MinOf({AxisLimit(W, p, ax, limit) : ax \in {"u", "v", "w"}})),
        FROM_EXT_ANG(W, MinOf({AxisLimit(W, p, ax, limit) : ax \in {"a", "b", "c"}})))

\* ini_maxvel, acc and ini_maxjerk of ARC_FEED before the feed cap
ArcLimit(W, end, limit) ==
    LET ax == PlaneAxes(W.canon.activePlane)
        axis_len == Abs(end[ax.axial] - W.canon.endPoint[ax.axial])
        helix(inplane) ==
            IF axis_valid(W, AxisNum[ax.axial]) /\ axis_len >= 1
            THEN MIN(inplane, FROM_EXT_LEN(W, emcAxisGetMax(W, limit, AxisNum[ax.axial])))
            ELSE inplane
    IN  MIN(helix(MIN(FROM_EXT_LEN(W, emcAxisGetMax(W, limit, AxisNum[ax.first])),
                      FROM_EXT_LEN(W, emcAxisGetMax(W, limit, AxisNum[ax.second])))),
            ArcOtherLimit(W, end, limit))

\* ArcMove with turn = rotation for either sense of rotation
ArcMove_turn(W, line_number, first_end, second_end, first_axis, second_axis, rotation, axis_end_point, rest, g) ==
    LET ax == PlaneAxes(W.canon.activePlane)
        n0 == [x |-> IF ax.axial = "x" THEN 1 ELSE 0, y |-> IF ax.axial = "y" THEN 1 ELSE 0]
        nr == IF ax.axial = "z" THEN n0 ELSE rotate(n0.x, n0.y, W.canon.xy_rotation)
        msg(W2, end, center, ini_maxvel, acc, ini_maxjerk) ==
            IF rotation = 0
            THEN moveMsg("EMC_TRAJ_LINEAR_MOVE", "EMC_MOTION_TYPE_ARC",
                         W.canon.feed_mode, to_ext_pose(W2, end), ini_maxvel,
                         ini_maxvel, acc, ini_maxjerk)
            ELSE [moveMsg("EMC_TRAJ_CIRCULAR_MOVE", "EMC_MOTION_TYPE_ARC",
                          W.canon.feed_mode, to_ext_pose(W2, end), ini_maxvel,
                          ini_maxvel, acc, ini_maxjerk)
                     EXCEPT !.center = [x |-> TO_EXT_LEN(W2, center.x),
                                        y |-> TO_EXT_LEN(W2, center.y),
                                        z |-> TO_EXT_LEN(W2, center.z)],
                            !.normal = [x |-> nr.x, y |-> nr.y,
                                        z |-> IF ax.axial = "z" THEN 1 ELSE 0],
                            !.arg = rotation]
        move(W2, end, center, ini_maxvel, acc, ini_maxjerk) ==
            canonUpdateEndPoint(
                IF ini_maxvel # 0 /\ acc # 0
                THEN append(set_line_number(W2, line_number),
                            msg(W2, end, center, ini_maxvel, acc, ini_maxjerk))
                ELSE W2, end)
        envelope(W1, end, center) ==
            move([W1 EXCEPT !.canon.cartesian_move = TRUE], end, center,
                 MIN(ArcLimit(W1, end, "Velocity"), W1.canon.linearFeedRate),
                 ArcLimit(W1, end, "Acceleration"),
                 ArcLimit(W1, end, "Jerk"))
        centred(W1, abcuvw, endXYZ) ==
            envelope(W1, [abcuvw EXCEPT !.x = endXYZ.x, !.y = endXYZ.y, !.z = endXYZ.z],
                     rotate_and_offset_pos(W1,
                         [ZeroPose EXCEPT ![ax.first] = FROM_PROG_LEN(W1, first_axis),
                                          ![ax.second] = FROM_PROG_LEN(W1, second_axis),
                                          ![ax.axial] = endXYZ[ax.axial]]))
        target(W1) ==
            centred(W1, rotate_and_offset_pos(W1, from_prog(W1, rest)),
                    rotate_and_offset_pos(W1,
                        [ZeroPose EXCEPT ![ax.first] = FROM_PROG_LEN(W1, first_end),
                                         ![ax.second] = FROM_PROG_LEN(W1, second_end),
                                         ![ax.axial] = FROM_PROG_LEN(W1, axis_end_point)]))
    IN  target(flush_segments(W, g))

\* the second half of ARC_FEED: the arc is not degraded to two feeds
ArcMove(W, line_number, first_end, second_end, first_axis, second_axis, rotation, axis_end_point, rest, g) ==
    LET ax == PlaneAxes(W.canon.activePlane)
        n0 == [x |-> IF ax.axial = "x" THEN 1 ELSE 0, y |-> IF ax.axial = "y" THEN 1 ELSE 0]
        nr == IF ax.axial = "z" THEN n0 ELSE rotate(n0.x, n0.y, W.canon.xy_rotation)
        msg(W2, end, center, ini_maxvel, acc, ini_maxjerk) ==
            IF rotation = 0
            THEN moveMsg("EMC_TRAJ_LINEAR_MOVE", "EMC_MOTION_TYPE_ARC",
                         W.canon.feed_mode, to_ext_pose(W2, end), ini_maxvel,
                         ini_maxvel, acc, ini_maxjerk)
            ELSE [moveMsg("EMC_TRAJ_CIRCULAR_MOVE", "EMC_MOTION_TYPE_ARC",
                          W.canon.feed_mode, to_ext_pose(W2, end), ini_maxvel,
                          ini_maxvel, acc, ini_maxjerk)
                     EXCEPT !.center = [x |-> TO_EXT_LEN(W2, center.x),
                                        y |-> TO_EXT_LEN(W2, center.y),
                                        z |-> TO_EXT_LEN(W2, center.z)],
                            !.normal = [x |-> nr.x, y |-> nr.y,
                                        z |-> IF ax.axial = "z" THEN 1 ELSE 0],
                            !.arg = IF rotation > 0 THEN rotation - 1 ELSE rotation]
        move(W2, end, center, ini_maxvel, acc, ini_maxjerk) ==
            canonUpdateEndPoint(
                IF ini_maxvel # 0 /\ acc # 0
                THEN append(set_line_number(W2, line_number),
                            msg(W2, end, center, ini_maxvel, acc, ini_maxjerk))
                ELSE W2, end)
        envelope(W1, end, center) ==
            move([W1 EXCEPT !.canon.cartesian_move = TRUE], end, center,
                 MIN(ArcLimit(W1, end, "Velocity"), W1.canon.linearFeedRate),
                 ArcLimit(W1, end, "Acceleration"),
                 ArcLimit(W1, end, "Jerk"))
        centred(W1, abcuvw, endXYZ) ==
            envelope(W1, [abcuvw EXCEPT !.x = endXYZ.x, !.y = endXYZ.y, !.z = endXYZ.z],
                     rotate_and_offset_pos(W1,
                         [ZeroPose EXCEPT ![ax.first] = FROM_PROG_LEN(W1, first_axis),
                                          ![ax.second] = FROM_PROG_LEN(W1, second_axis),
                                          ![ax.axial] = endXYZ[ax.axial]]))
        target(W1) ==
            centred(W1, rotate_and_offset_pos(W1, from_prog(W1, rest)),
                    rotate_and_offset_pos(W1,
                        [ZeroPose EXCEPT ![ax.first] = FROM_PROG_LEN(W1, first_end),
                                         ![ax.second] = FROM_PROG_LEN(W1, second_end),
                                         ![ax.axial] = FROM_PROG_LEN(W1, axis_end_point)]))
    IN  target(flush_segments(W, g))

\* the chord of the arc as ARC_FEED measures it: from the last position, with
\* the end and the centre offset but not rotated
ArcChord(W, first_end, second_end, first_axis, second_axis, rotation) ==
    [sx |-> get_last_pos(W).x, sy |-> get_last_pos(W).y,
     ex |-> offset(W, "x", FROM_PROG_LEN(W, first_end)),
     ey |-> offset(W, "y", FROM_PROG_LEN(W, second_end)),
     cx |-> offset(W, "x", FROM_PROG_LEN(W, first_axis)),
     cy |-> offset(W, "y", FROM_PROG_LEN(W, second_axis))]

\* rest holds a, b, c, u, v, w of the call (its x, y, z are not used).  The
\* degraded arc passes them to rotate_and_offset_pos without from_prog.
ARC_FEED(W, line_number, first_end, second_end, first_axis, second_axis, rotation, axis_end_point, rest, g) ==
    LET l == get_last_pos(W)
        e == W.canon.endPoint
        degrade(cd, q) ==
            IF /\ W.canon.activePlane = "CANON_PLANE_XY"
               /\ W.canon.motionMode = "CANON_CONTINUOUS"
               /\ cd.dev < W.canon.naivecamTolerance
            THEN see_segment(
                     see_segment(W, line_number,
                         Pose(cd.mx, cd.my, (l.z + q.z) \div 2, (e.a + q.a) \div 2,
                              (e.b + q.b) \div 2, (e.c + q.c) \div 2, (e.u + q.u) \div 2,
                              (e.v + q.v) \div 2, (e.w + q.w) \div 2), g),
                     line_number, q, g)
            ELSE ArcMove(W, line_number, first_end, second_end, first_axis, second_axis,
                         rotation, axis_end_point, rest, g)
        chord(k) ==
            degrade(chord_deviation(k.sx, k.sy, k.ex, k.ey, k.cx, k.cy, rotation),
                    rotate_and_offset_pos(W,
                        [rest EXCEPT !.x = FROM_PROG_LEN(W, first_end),
                                     !.y = FROM_PROG_LEN(W, second_end),
                                     !.z = FROM_PROG_LEN(W, axis_end_point)]))
    IN  chord(ArcChord(W, first_end, second_end, first_axis, second_axis, rotation))

(***************************************************************************)
(* SPLINE_FEED                                                             *)
(***************************************************************************)
\* the number of samples of either form of SPLINE_FEED: the quadratic form
\* defines N as 2, the cubic form has its own definition commented out
N == 2

\* what biarc computes, sample by sample, for the quadratic spline from (0, 0)
\* by the control points (100, 0) and (100, 100) and for the cubic spline by
\* (100, 0), (100, 100) and (200, 100): every fit succeeds (the discriminant is
\* positive, one root is not) and hands arc two segments, each with den above
\* small: the end x1, y1, the centre cx = x1 + i, cy = y1 + j and the rotation
\* (r < 0 ? 1 : -1).  The values are those of the double arithmetic (hypot,
\* sqrt) in ticks, rounded.
SplineFits(form) ==
    LET seg(x1, y1, cx, cy, rotation) ==
            [x1 |-> x1, y1 |-> y1, cx |-> cx, cy |-> cy, rotation |-> rotation]
    IN  IF form = "quadratic"
        THEN <<(<<seg(41, 5, 41, 165, 1), seg(75, 25, 56, 99, 1)>>),
               (<<seg(95, 59, 41, 113, 1), seg(100, 100, -55, 141, 1)>>)>>
        ELSE <<(<<seg(54, 15, 54, 122, 1), seg(100, 50, -14, 245, 1)>>),
               (<<seg(146, 85, 306, -75, -1), seg(200, 100, 254, 7, -1)>>)>>

RECURSIVE SplineLoop(_, _, _, _, _)
\* the loop of SPLINE_FEED from the sample i on: for(i = 1; i <= N; i++) fits
\* one biarc, which calls arc twice, and arc calls ARC_FEED with the z and the
\* a .. w of canon.endPoint as it converts them (the arc is not degraded to
\* feeds: the naive CAM tolerance is 0 where the model takes this step)
SplineLoop(W, lineno, fits, i, g) ==
    IF i > N THEN W
    ELSE
      LET arc(W1, s) ==
              ArcMove(W1, lineno, s.x1, s.y1, s.cx, s.cy, s.rotation,
                      ((W1.canon.endPoint.z - W1.canon.programOrigin.z)
                           * ProgLenFactor(W1).den) \div ProgLenFactor(W1).num,
                      [W1.canon.endPoint EXCEPT !.x = 0, !.y = 0, !.z = 0], g)
      IN  SplineLoop(arc(arc(W, fits[i][1]), fits[i][2]), lineno, fits, i + 1, g)

\* what SPLINE_FEED (the quadratic form) hands biarc for the control points
\* ctrl = <<(x0, y0), (x1, y1), (x2, y2)>> from the origin o (a point and its
\* tangent): the sample x, y and its tangent dx, dy, computed from t0, t1, t2,
\* q0 and q1, the coefficients of the parameter T.  T is in 1024ths.
SplineSample(ctrl, o, T) ==
    LET t0 == (1024 - T) * (1024 - T)
        t1 == 2 * T * (1024 - T)
        t2 == T * T
        q0 == 1024 - T
        q1 == T
    IN  [ox |-> o.x, oy |-> o.y, odx |-> o.dx, ody |-> o.dy,
         x |-> (ctrl[1].x * t0 + ctrl[2].x * t1 + ctrl[3].x * t2) \div (1024 * 1024),
         y |-> (ctrl[1].y * t0 + ctrl[2].y * t1 + ctrl[3].y * t2) \div (1024 * 1024),
         dx |-> (2 * (ctrl[2].x - ctrl[1].x) * q0 + 2 * (ctrl[3].x - ctrl[2].x) * q1) \div 1024,
         dy |-> (2 * (ctrl[2].y - ctrl[1].y) * q0 + 2 * (ctrl[3].y - ctrl[2].y) * q1) \div 1024]

\* biarc returns 0 for these arguments: from (0, 0) with the tangent (6, 6) to
\* (3, 3) with the tangent (6, 6).  unit leaves both tangents at
\* (0.7071067811865476, 0.7071067811865476), whose product with itself is
\* 1.0000000000000002 in double arithmetic, so a = 2 * r * (... - 1) is
\* positive, b is negative, the discriminant is positive and both roots are
\* positive.  (In exact arithmetic a <= 0 and no fit is rejected.)
BiarcRejects(fit) ==
    fit = [ox |-> 0, oy |-> 0, odx |-> 600, ody |-> 600,
           x |-> 300, y |-> 300, dx |-> 600, dy |-> 600]

(***************************************************************************)
(* Spindle, coolant, program flow, I/O                                     *)
(***************************************************************************)
\* flush_segments, then interp_list.append of a message of the given type
FlushAppend(W, type, arg, g) == append(flush_segments(W, g), [Msg(type) EXCEPT !.arg = arg])


\* canon.css_numerator is kept as a multiple of 1/(20 pi): 12/(2 pi) is 120 of
\* them, 1000/(2 pi) is 10000 of them, and 25.4 is 254/10
CssNumerator(W, inch, mm) ==
    IF W.canon.lengthUnits = "CANON_UNITS_INCHES" THEN inch ELSE mm

\* SpindleMsg sending the plain speed in the css case as well
SpindleMsg_plain(W, type, numerator, speed) ==
    IF W.canon.css_maximum # 0
    THEN append([W EXCEPT !.canon.css_numerator = numerator],
                [Msg(type) EXCEPT
                    !.arg = speed, !.factor = numerator,
                    !.xoffset = TO_EXT_LEN(W, W.canon.programOrigin.x
                                              + W.canon.toolOffset.x)])
    ELSE append([W EXCEPT !.canon.css_numerator = 0], [Msg(type) EXCEPT !.arg = speed])

\* SpindleMsg without the assignment to canon.css_numerator in the css case
SpindleMsg_unset(W, type, numerator, speed) ==
    IF W.canon.css_maximum # 0
    THEN append(W,
                [Msg(type) EXCEPT
                    !.arg = W.canon.css_maximum, !.factor = numerator,
                    !.xoffset = TO_EXT_LEN(W, W.canon.programOrigin.x
                                              + W.canon.toolOffset.x)])
    ELSE append([W EXCEPT !.canon.css_numerator = 0], [Msg(type) EXCEPT !.arg = speed])

\* the EMC_SPINDLE_ON / EMC_SPINDLE_SPEED message and the numerator left in
\* canon, given the numerator of the css case and the speed of the other case
SpindleMsg(W, type, numerator, speed) ==
    IF W.canon.css_maximum # 0
    THEN append([W EXCEPT !.canon.css_numerator = numerator],
                [Msg(type) EXCEPT
                    !.arg = W.canon.css_maximum, !.factor = numerator,
                    !.xoffset = TO_EXT_LEN(W, W.canon.programOrigin.x
                                              + W.canon.toolOffset.x)])
    ELSE append([W EXCEPT !.canon.css_numerator = 0], [Msg(type) EXCEPT !.arg = speed])

START_SPINDLE_CLOCKWISE(W, g) ==
    LET on(W1) ==
            SpindleMsg(W1, "EMC_SPINDLE_ON",
                       CssNumerator(W1, TO_EXT_LEN(W1, 12 * 254 * W1.canon.spindleSpeed),
                                        TO_EXT_LEN(W1, 10000 * W1.canon.spindleSpeed)),
                       W1.canon.spindleSpeed)
    IN  on(flush_segments(W, g))

START_SPINDLE_COUNTERCLOCKWISE(W, g) ==
    LET on(W1) ==
            SpindleMsg(W1, "EMC_SPINDLE_ON",
                       CssNumerator(W1, -120 * W1.canon.spindleSpeed,
                                        -10000 * W1.canon.spindleSpeed),
                       -W1.canon.spindleSpeed)
    IN  on(flush_segments(W, g))

SET_SPINDLE_SPEED(W, r, g) ==
    LET speed(W1) ==
            SpindleMsg(W1, "EMC_SPINDLE_SPEED", CssNumerator(W1, 120 * r, 10000 * r), r)
    IN  speed(flush_segments([W EXCEPT !.canon.spindleSpeed = r], g))





CANON_ERROR(W, g) == FlushAppend(W, "EMC_OPERATOR_ERROR", 0, g)

\* the value returned is the program position; the effect is on the buffer
\* and the end point
GET_EXTERNAL_POSITION(W) ==
    canonUpdateEndPoint([W EXCEPT !.pts = <<>>], from_ext_pose(W, W.host.position))

(***************************************************************************)
(* NURBS_FEED_3D.  A control point is [P |-> pose, R |-> weight, F |-> feed] *)
(* in program units; a U(L) entry is its two flags.                        *)
(***************************************************************************)
RECURSIVE NurbsTravel(_, _, _)
\* dx .. dw after the summing loop: the sum from control point i on
NurbsTravel(cps, ax, i) ==
    IF i >= Len(cps) THEN 0
    ELSE Abs(cps[i + 1].P[ax] - cps[i].P[ax]) + NurbsTravel(cps, ax, i + 1)

\* dx .. dw are not initialised before the summing loop (g is what they hold),
\* then zeroed for an axis out of the mask or a travel below tiny
NurbsDelta(W, cps, ax, g) ==
    LET d == g + NurbsTravel(cps, ax, 1)
    IN  IF ~axis_valid(W, AxisNum[ax]) \/ d < 1 THEN 0 ELSE d

NurbsLinear(W, cps, g) == \E ax \in LinearAxes : NurbsDelta(W, cps, ax, g) # 0
NurbsAngular(W, cps, g) == \E ax \in AngularAxes : NurbsDelta(W, cps, ax, g) # 0

\* (dx > 0 ? FROM_EXT_LEN(limit(0)) : huge)
NurbsAxisLimit(W, cps, ax, limit, g) ==
    IF NurbsDelta(W, cps, ax, g) > 0 THEN FROM_EXT_LEN(W, emcAxisGetMax(W, limit, AxisNum[ax])) ELSE huge

\* TO_EXT_LEN(MIN4(MIN3(x, y, z), u, v, w)) of the per-axis limits
NurbsCartLimit(W, cps, limit, g) ==
    TO_EXT_LEN(W, MinOf({NurbsAxisLimit(W, cps, ax, limit, g) : ax \in LinearAxes}))

\* the branch that is not cartesian.  linear_vel_a = angular_v/360*2*pi*r with
\* r the distance of the last control point from the a axis: 0 when r = 0
NurbsAngLimit(W, cps, limit, g) ==
    TO_EXT_LEN(W, MinOf({NurbsCartLimit(W, cps, limit, g),
                         IF NurbsDelta(W, cps, "a", g) > 0 THEN FROM_EXT_LEN(W, 0) ELSE huge}
                        \cup {NurbsAxisLimit(W, cps, ax, limit, g) : ax \in {"b", "c"}}))

\* the asserts of the three message loops on the U(L) entries: the entries
\* flagged as control points are the first ones, and every entry is a knot
UoflFlagsOn(uofl) ==
    \A j \in 1..Len(uofl) :
        /\ uofl[j].uofl_knot_flag
        /\ j <= Cardinality({i \in 1..Len(uofl) : uofl[i].uofl_ctrl_pt_flag})
               => uofl[j].uofl_ctrl_pt_flag

\* the control points the model computes NURBS_FEED_3D exactly for: more than
\* one (the assert), some axis travels (the assert(0) of the classification),
\* and r = 0 where linear_vel_a is used
NurbsExact(W, cps, g) ==
    /\ Len(cps) > 1
    /\ NurbsLinear(W, cps, g) \/ NurbsAngular(W, cps, g)
    /\ NurbsDelta(W, cps, "a", g) > 0 =>
           (cps[Len(cps)].P.y = 0 /\ cps[Len(cps)].P.z = 0)

\* the pose of a control point as the loops compute it: converted, rotated,
\* offset and multiplied by the weight (the second loop leaves z unweighted)
NurbsPose(W, cp, weighz) ==
    LET weigh(q) ==
            MkPose([ax \in AxisNames |-> IF ax = "z" /\ ~weighz THEN q[ax] ELSE q[ax] * cp.R])
    IN  weigh(rotate_and_offset_pos(W, from_prog(W, cp.P)))

RECURSIVE NurbsCtrlLoop(_, _, _, _, _, _)
\* the loop over the control points from i on; vel is the running velocity
NurbsCtrlLoop(W, line_number, cps, i, vel, msg) ==
    IF i > Len(cps) THEN W
    ELSE
      LET point(p, v) ==
              NurbsCtrlLoop(
                  canonUpdateEndPoint(
                      append(set_line_number(W, line_number),
                             [msg EXCEPT !.end = p, !.vel = v, !.factor = cps[i].R]), p),
                  line_number, cps, i + 1, v, msg)
      IN  point(NurbsPose(W, cps[i], TRUE),
                IF cps[i].F # -1 THEN FROM_PROG_LEN(W, cps[i].F) \div 60 ELSE vel)

RECURSIVE NurbsKnotLoop(_, _, _, _, _, _, _)
\* the loop over the knots beyond the control points (weight 0) and the loop
\* over the U(L) entries beyond the knots (weight 1), from message i on
NurbsKnotLoop(W, line_number, cps, i, nr_of_knot, weight, msg) ==
    IF i >= nr_of_knot THEN W
    ELSE
      LET knot(p) ==
              NurbsKnotLoop(
                  canonUpdateEndPoint(
                      append(set_line_number(W, line_number),
                             [msg EXCEPT !.end = p, !.vel = W.canon.linearFeedRate,
                                         !.factor = weight]), p),
                  line_number, cps, i + 1, nr_of_knot, weight, msg)
      IN  knot(NurbsPose(W, cps[Len(cps)], FALSE))

NURBS_FEED_3D(W, line_number, cps, nr_of_knot, uofl, k, curve_length, g) ==
    LET limit(W2, cart, axisLimit) ==
            IF cart THEN NurbsCartLimit(W2, cps, axisLimit, g)
            ELSE NurbsAngLimit(W2, cps, axisLimit, g)
        nr_uofl_cp == Cardinality({j \in 1..Len(uofl) : uofl[j].uofl_ctrl_pt_flag})
        loops(W2, vel, msg) ==
            NurbsKnotLoop(
                NurbsKnotLoop(NurbsCtrlLoop(W2, line_number, cps, 1, vel, msg),
                              line_number, cps, Len(cps), nr_of_knot, 0, msg),
                line_number, cps, IF nr_of_knot > Len(cps) THEN nr_of_knot ELSE Len(cps),
                Len(uofl), 1, msg)
        capped(W2, feed, ini_maxvel, ini_maxacc, ini_maxjerk) ==
            loops(W2, IF ini_maxvel > feed THEN feed ELSE ini_maxvel,
                  [moveMsg("EMC_TRAJ_NURBS_MOVE", "EMC_MOTION_TYPE_FEED", W.canon.feed_mode,
                           ZeroPose, 0, ini_maxvel, ini_maxacc, ini_maxjerk)
                      EXCEPT !.nurbs_block =
                          [nr_of_ctrl_pts |-> Len(cps), nr_of_knots |-> nr_of_knot,
                           order |-> k, curve_len |-> curve_length,
                           nr_of_uofl_ctrl_pts |-> nr_uofl_cp,
                           nr_of_uofl_knots |-> Len(uofl)]])
        envelope(W2, cart) ==
            capped(W2, IF cart THEN W2.canon.linearFeedRate ELSE W2.canon.angularFeedRate,
                   limit(W2, cart, "Velocity"),
                   limit(W2, cart, "Acceleration"),
                   limit(W2, cart, "Jerk"))
        classify(W1, cart) ==
            envelope([W1 EXCEPT !.canon.cartesian_move = cart, !.canon.angular_move = ~cart],
                     cart)
        flushed(W1) == classify(W1, NurbsLinear(W1, cps, g) /\ ~NurbsAngular(W1, cps, g))
    IN  flushed(flush_segments(W, g))

(***************************************************************************)
(* Initialisation                                                          *)
(***************************************************************************)

\* the canonical state before INIT_CANON assigns it (the statics are zeroed)
ZeroCanon ==
    [endPoint |-> ZeroPose, programOrigin |-> ZeroPose, toolOffset |-> ZeroPose,
     xy_rotation |-> 0, lengthUnits |-> "CANON_UNITS_MM", linearFeedRate |-> 0,
     angularFeedRate |-> 0, feed_mode |-> 0, synched |-> FALSE,
     motionMode |-> "CANON_CONTINUOUS", motionTolerance |-> 0,
     naivecamTolerance |-> 0, cartesian_move |-> FALSE, angular_move |-> FALSE,
     activePlane |-> "CANON_PLANE_XY", spindleSpeed |-> 0, css_maximum |-> 0,
     css_numerator |-> 0]

\* INIT_CANON without chained_points().clear(): the pending feeds are flushed
INIT_CANON_flushed(W, g) ==
    LET W0 == [W EXCEPT !.canon.xy_rotation = 0, !.canon.css_maximum = 0,
                        !.canon.css_numerator = 0, !.canon.feed_mode = 0,
                        !.canon.synched = FALSE, !.canon.programOrigin = ZeroPose]
        W1 == canonUpdateEndPoint(SELECT_PLANE(W0, "CANON_PLANE_XY"), ZeroPose)
        W2 == SET_NAIVECAM_TOLERANCE(
                  SET_MOTION_CONTROL_MODE(W1, "CANON_CONTINUOUS", 0, g), 0)
        units(W3, u) ==
            \* |units - 1/25.4| < 1e-3, for units = num/den
            IF 1000 * Abs(254 * u.num - 10 * u.den) < 254 * u.den THEN [W3 EXCEPT !.canon.lengthUnits = "CANON_UNITS_INCHES"]
            \* |units - 1| < 1e-3
            ELSE IF 1000 * Abs(u.num - u.den) < u.den THEN [W3 EXCEPT !.canon.lengthUnits = "CANON_UNITS_MM"]
            ELSE [CANON_ERROR(W3, g) EXCEPT !.canon.lengthUnits = "CANON_UNITS_MM"]
    IN  units([W2 EXCEPT !.canon.spindleSpeed = 0, !.canon.cartesian_move = FALSE,
                         !.canon.angular_move = FALSE, !.canon.linearFeedRate = 0,
                         !.canon.angularFeedRate = 0, !.canon.toolOffset = ZeroPose],
              GET_EXTERNAL_LENGTH_UNITS(W))

INIT_CANON(W, g) ==
    LET W0 == [W EXCEPT !.pts = <<>>,
                        !.canon.xy_rotation = 0, !.canon.css_maximum = 0,
                        !.canon.css_numerator = 0, !.canon.feed_mode = 0,
                        !.canon.synched = FALSE, !.canon.programOrigin = ZeroPose]
        W1 == canonUpdateEndPoint(SELECT_PLANE(W0, "CANON_PLANE_XY"), ZeroPose)
        W2 == SET_NAIVECAM_TOLERANCE(
                  SET_MOTION_CONTROL_MODE(W1, "CANON_CONTINUOUS", 0, g), 0)
        units(W3, u) ==
            \* |units - 1/25.4| < 1e-3, for units = num/den
            IF 1000 * Abs(254 * u.num - 10 * u.den) < 254 * u.den THEN [W3 EXCEPT !.canon.lengthUnits = "CANON_UNITS_INCHES"]
            \* |units - 1| < 1e-3
            ELSE IF 1000 * Abs(u.num - u.den) < u.den THEN [W3 EXCEPT !.canon.lengthUnits = "CANON_UNITS_MM"]
            ELSE [CANON_ERROR(W3, g) EXCEPT !.canon.lengthUnits = "CANON_UNITS_MM"]
    IN  units([W2 EXCEPT !.canon.spindleSpeed = 0, !.canon.cartesian_move = FALSE,
                         !.canon.angular_move = FALSE, !.canon.linearFeedRate = 0,
                         !.canon.angularFeedRate = 0, !.canon.toolOffset = ZeroPose],
              GET_EXTERNAL_LENGTH_UNITS(W))

(***************************************************************************)
(* The host: emcStatus->motion.traj, the axis limits of the ini file and   *)
(* the tool change position                                                *)
(***************************************************************************)
XYZ(x, y, z) == Pose(x, y, z, 0, 0, 0, 0, 0, 0)

\* a millimetre machine with the axes X, Y and Z and the same limits on
\* every axis
HostXYZ ==
    [axis_mask |-> {0, 1, 2},
     linearUnits |-> [num |-> 1, den |-> 1], angularUnits |-> [num |-> 1, den |-> 1],
     max_velocity |-> [n \in 0..8 |-> 100],
     max_acceleration |-> [n \in 0..8 |-> 1000],
     max_jerk |-> [n \in 0..8 |-> 10000],
     position |-> XYZ(300, 0, 0), probedPosition |-> ZeroPose,
     input_timeout |-> 0, synch_di |-> [n \in 0..(EMCMOT_MAX_DIO - 1) |-> 2 * (n % 2)],
     analog_input |-> [n \in 0..(EMCMOT_MAX_AIO - 1) |-> 10 * n + 7],
     toolTable |-> [pocket \in 0..(CANON_POCKETS_MAX - 1) |->
                       [toolno |-> pocket, offset |-> XYZ(0, 0, 10 * pocket),
                        frontangle |-> 0, backangle |-> 0, diameter |-> 5,
                        orientation |-> 0]],
     HAVE_TOOL_CHANGE_POSITION |-> TRUE, TOOL_CHANGE_POSITION |-> XYZ(0, 0, 500)]

\* a machine with a rotary axis A, two user units per millimetre and limits
\* that differ from axis to axis
HostXYZA ==
    [axis_mask |-> {0, 1, 2, 3},
     linearUnits |-> [num |-> 2, den |-> 1], angularUnits |-> [num |-> 1, den |-> 1],
     max_velocity |-> [n \in 0..8 |-> IF n = 0 THEN 200 ELSE IF n = 3 THEN 30 ELSE 100],
     max_acceleration |-> [n \in 0..8 |-> IF n = 1 THEN 400 ELSE IF n = 2 THEN 600 ELSE 1000],
     max_jerk |-> [n \in 0..8 |-> 10000],
     position |-> XYZ(0, 200, 0), probedPosition |-> XYZ(0, 200, -50),
     input_timeout |-> 1, synch_di |-> [n \in 0..(EMCMOT_MAX_DIO - 1) |-> 2 * (n % 2)],
     analog_input |-> [n \in 0..(EMCMOT_MAX_AIO - 1) |-> 10 * n + 7],
     toolTable |-> [pocket \in 0..(CANON_POCKETS_MAX - 1) |->
                       [toolno |-> pocket, offset |-> XYZ(0, 0, 10 * pocket),
                        frontangle |-> 0, backangle |-> 0, diameter |-> 5,
                        orientation |-> 0]],
     HAVE_TOOL_CHANGE_POSITION |-> FALSE, TOOL_CHANGE_POSITION |-> ZeroPose]

(***************************************************************************)
(* The state machine                                                       *)
(***************************************************************************)
\* the world the next canonical call finds
Cur ==
    [canon |-> canon, pts |-> chained_points, list |-> interp_list,
     line |-> interp_line, host |-> emcStatus, n |-> ncalls + 1]

\* the world after INIT_CANON on the host h and the program's set-up of the
\* fusion tolerance and the feed rate
Preamble(h, tolerance, rate) ==
    SET_FEED_RATE(
        SET_NAIVECAM_TOLERANCE(
            INIT_CANON([canon |-> ZeroCanon, pts |-> <<>>, list |-> <<>>, line |-> 0,
                        host |-> h, n |-> 0], 0),
            tolerance),
        rate, 0)

\* lastCall is the last canonical call: its name, the world position it
\* commands (the end point, for a call that commands none; the argument, for
\* a query of a table or an input), and its program line
Start(W) ==
    /\ canon = W.canon
    /\ chained_points = W.pts
    /\ interp_list = W.list
    /\ interp_line = W.line
    /\ emcStatus = W.host
    /\ ncalls = 0
    /\ lastCall = [op |-> "INIT_CANON", cmd |-> ZeroPose, line |-> 0]
    /\ returned = [kind |-> "void", val |-> 0]
    /\ probefile = [open |-> FALSE, lines |-> <<>>]
    /\ last_probed_position = ZeroPose

\* the call leaves the world W and returns the value val
Returns(W, op, cmd, val) ==
    /\ canon' = W.canon
    /\ chained_points' = W.pts
    /\ interp_list' = W.list
    /\ interp_line' = W.line
    /\ emcStatus' = W.host
    /\ ncalls' = ncalls + 1
    /\ lastCall' = [op |-> op, cmd |-> cmd, line |-> 10 * (ncalls + 1)]
    /\ returned' = [kind |-> "value", val |-> val]

\* a call that returns nothing and does not touch the probe file
Return(W, op, cmd) ==
    /\ canon' = W.canon
    /\ chained_points' = W.pts
    /\ interp_list' = W.list
    /\ interp_line' = W.line
    /\ emcStatus' = W.host
    /\ ncalls' = ncalls + 1
    /\ lastCall' = [op |-> op, cmd |-> cmd, line |-> 10 * (ncalls + 1)]
    /\ returned' = [kind |-> "void", val |-> 0]
    /\ UNCHANGED <<probefile, last_probed_position>>

\* the program line of the next call
NextLine == 10 * (ncalls + 1)

\* the world position of a program position
World(prog) == rotate_and_offset_pos(Cur, from_prog(Cur, prog))

\* the program positions of the moves: an axis the machine lacks stays at 0
Targets ==
    {XYZ(100, 0, 0), XYZ(200, 5, 0)}
        \cup (IF axis_valid(Cur, 3)
              THEN {[XYZ(100, 0, 0) EXCEPT !.a = 90], [ZeroPose EXCEPT !.a = 90]}
              ELSE {})

(***************************************************************************)
(* One action per canonical call.  max bounds the number of calls.         *)
(***************************************************************************)
StraightFeed(max, targets) ==
    /\ ncalls < max
    /\ \E prog \in targets, g \in Garbage :
           Return(STRAIGHT_FEED(Cur, NextLine, prog, g), "STRAIGHT_FEED", World(prog))

Finish(max) ==
    /\ ncalls < max
    /\ \E g \in Garbage : Return(FINISH(Cur, g), "FINISH", canon.endPoint)

StraightTraverse(max) ==
    /\ ncalls < max
    /\ \E prog \in {XYZ(100, 0, 0), XYZ(0, 0, 0)}, g \in Garbage :
           Return(STRAIGHT_TRAVERSE(Cur, NextLine, prog, g), "STRAIGHT_TRAVERSE",
                  World(prog))

StraightProbe(max) ==
    /\ ncalls < max
    /\ \E prog \in {XYZ(0, 0, -50)}, g \in Garbage :
           Return(STRAIGHT_PROBE(Cur, NextLine, prog, 0, g), "STRAIGHT_PROBE", World(prog))

RigidTap(max) ==
    /\ ncalls < max
    /\ \E prog \in {XYZ(0, 0, -50), XYZ(200, 5, -50)}, g \in Garbage :
           Return(RIGID_TAP(Cur, NextLine, prog, g), "RIGID_TAP", canon.endPoint)

\* an arc of the plane [first_end, second_end, first_axis, second_axis,
\* rotation, axis_end_point, rest], rest holding its a, b, c, u, v, w: a half
\* turn too wide to degrade, the same with rotation 0, a half turn of radius
\* 0.04 and an arc of radius 0 about the origin; the first and the last also
\* with a move of the axis U
Arcs ==
    {[first_end |-> 1000, second_end |-> 0, first_axis |-> 500, second_axis |-> 0,
      rotation |-> 1, axis_end_point |-> 0, rest |-> ZeroPose],
     [first_end |-> 1000, second_end |-> 0, first_axis |-> 500, second_axis |-> 0,
      rotation |-> 0, axis_end_point |-> 0, rest |-> ZeroPose],
     [first_end |-> 8, second_end |-> 0, first_axis |-> 4, second_axis |-> 0,
      rotation |-> 1, axis_end_point |-> 0, rest |-> ZeroPose],
     [first_end |-> 100, second_end |-> 0, first_axis |-> 0, second_axis |-> 0,
      rotation |-> -1, axis_end_point |-> 0, rest |-> ZeroPose],
     [first_end |-> 1000, second_end |-> 0, first_axis |-> 500, second_axis |-> 0,
      rotation |-> 1, axis_end_point |-> 0, rest |-> [ZeroPose EXCEPT !.u = 10]],
     [first_end |-> 100, second_end |-> 0, first_axis |-> 0, second_axis |-> 0,
      rotation |-> -1, axis_end_point |-> 0, rest |-> [ZeroPose EXCEPT !.u = 10]]}

\* the world position an arc commands: its end rotated and offset, the other
\* axes converted and offset
ArcEnd(arc, rest) ==
    LET ax == PlaneAxes(canon.activePlane)
        e == World([ZeroPose EXCEPT ![ax.first] = arc.first_end,
                                    ![ax.second] = arc.second_end,
                                    ![ax.axial] = arc.axis_end_point])
        o == World(rest)
    IN  [o EXCEPT !.x = e.x, !.y = e.y, !.z = e.z]

ArcFeed(max) ==
    /\ ncalls < max
    /\ \E arc \in Arcs, g \in Garbage :
           LET k == ArcChord(Cur, arc.first_end, arc.second_end, arc.first_axis,
                             arc.second_axis, arc.rotation)
           IN  /\ ChordExact(k.sx, k.sy, k.ex, k.ey, k.cx, k.cy, arc.rotation)
               /\ Return(ARC_FEED(Cur, NextLine, arc.first_end, arc.second_end,
                                  arc.first_axis, arc.second_axis, arc.rotation,
                                  arc.axis_end_point, arc.rest, g),
                         "ARC_FEED", ArcEnd(arc, arc.rest))

\* two control points, the second at one of ends with weight R, nr_of_knot
\* knots, a U(L) overlay of one of the sizes (every entry flagged as control
\* point and knot), the order 3 and the curve length 100.  When no delta is
\* left non-zero the classification reaches assert(0) after the flush and the
\* process aborts: no call follows (ncalls = last)
NurbsFeed3D(max, ends, sizes, last) ==
    /\ ncalls < max
    /\ \E R \in {1, 2}, nr_of_knot \in {3}, end \in ends, size \in sizes, g \in Garbage :
           LET cps == <<[P |-> XYZ(0, 0, 0), R |-> 1, F |-> 600],
                        [P |-> end, R |-> R, F |-> -1]>>
               uofl == [j \in 1..size |-> [uofl_ctrl_pt_flag |-> TRUE, uofl_knot_flag |-> TRUE]]
           IN  IF NurbsExact(Cur, cps, g) /\ UoflFlagsOn(uofl)
               THEN Return(NURBS_FEED_3D(Cur, NextLine, cps, nr_of_knot, uofl, 3, 100, g),
                           "NURBS_FEED_3D", World(cps[2].P))
               ELSE /\ ~NurbsLinear(Cur, cps, g) /\ ~NurbsAngular(Cur, cps, g)
                    /\ canon' = flush_segments(Cur, g).canon
                    /\ chained_points' = flush_segments(Cur, g).pts
                    /\ interp_list' = flush_segments(Cur, g).list
                    /\ interp_line' = flush_segments(Cur, g).line
                    /\ emcStatus' = flush_segments(Cur, g).host
                    /\ ncalls' = last
                    /\ lastCall' = [op |-> "NURBS_FEED_3D", cmd |-> World(cps[2].P),
                                    line |-> NextLine]
                    /\ returned' = [kind |-> "SIGABRT", val |-> 0]
                    /\ UNCHANGED <<probefile, last_probed_position>>

\* SPLINE_FEED of the quadratic or the cubic form with the control points of
\* SplineFits, where the flush leaves x = y = 0 in millimetres and no arc is
\* degraded
SplineFeed(max) ==
    /\ ncalls < max
    /\ \E form \in {"quadratic", "cubic"}, g \in Garbage :
           LET flushed(F) ==
                   /\ F.canon.endPoint.x = 0 /\ F.canon.endPoint.y = 0
                   /\ F.canon.lengthUnits = "CANON_UNITS_MM"
                   /\ F.canon.naivecamTolerance = 0
                   /\ Return(SplineLoop(F, NextLine, SplineFits(form), 1, g),
                             "SPLINE_FEED", form)
           IN  flushed(flush_segments(Cur, g))

\* SPLINE_FEED of the quadratic form with the control points (3, 3) and
\* (6, 6), where the flush leaves x = y = 0 in millimetres: biarc rejects the
\* fit of the first sample (i = 1, t = u = 1/2), so the call sets t = t - u
\* and u /= -2 and goes to perturb.  The call has not returned: returned holds
\* its locals (the parameter T its coefficients were computed from, t, u, the
\* number of rejected fits and the arguments of the rejected one), and no
\* other call is made in the meantime (ncalls = last)
SplineReject(max, last) ==
    /\ ncalls < max
    /\ \E g \in Garbage :
           LET ctrl == <<[x |-> 0, y |-> 0], [x |-> 300, y |-> 300], [x |-> 600, y |-> 600]>>
               o == [x |-> 0, y |-> 0, dx |-> 600, dy |-> 600]
               rejected(F, fit) ==
                   /\ F.canon.endPoint.x = 0 /\ F.canon.endPoint.y = 0
                   /\ F.canon.lengthUnits = "CANON_UNITS_MM"
                   /\ BiarcRejects(fit)
                   /\ canon' = F.canon
                   /\ chained_points' = F.pts
                   /\ interp_list' = F.list
                   /\ interp_line' = F.line
                   /\ emcStatus' = F.host
                   /\ ncalls' = last
                   /\ lastCall' = [op |-> "SPLINE_FEED", cmd |-> "quadratic", line |-> NextLine]
                   /\ returned' = [kind |-> "running",
                                   val |-> [ctrl |-> ctrl, o |-> o, T |-> 512, t |-> 512 - 512,
                                            u |-> -(512 \div 2), tries |-> 1, fit |-> fit]]
                   /\ UNCHANGED <<probefile, last_probed_position>>
           IN  rejected(flush_segments(Cur, g), SplineSample(ctrl, o, 512))

\* the pass from the label perturb of a SPLINE_FEED that has not returned: the
\* sample is computed from the coefficients, which were set before the label,
\* biarc rejects the fit, and the call sets t = t - u and u /= -2 and goes to
\* perturb again
SplinePerturb ==
    /\ returned.kind = "running"
    /\ returned.val.tries < MaxSplineRetries
    /\ LET fit == SplineSample(returned.val.ctrl, returned.val.o, returned.val.T)
       IN  /\ BiarcRejects(fit)
           /\ returned' = [returned EXCEPT !.val.t = returned.val.t - returned.val.u,
                                           !.val.u = -(returned.val.u \div 2),
                                           !.val.tries = @ + 1,
                                           !.val.fit = fit]
    /\ UNCHANGED <<canon, chained_points, interp_list, interp_line, emcStatus, ncalls,
                   lastCall, probefile, last_probed_position>>

ChangeTool(max) ==
    /\ ncalls < max
    /\ \E g \in Garbage :
           Return(CHANGE_TOOL(Cur, 1, g), "CHANGE_TOOL",
                  IF emcStatus.HAVE_TOOL_CHANGE_POSITION
                  THEN from_ext_pose(Cur, emcStatus.TOOL_CHANGE_POSITION)
                  ELSE flush_segments(Cur, g).canon.endPoint)

SelectPocket(max) ==
    /\ ncalls < max
    /\ Return(append(Cur, [Msg("EMC_TOOL_PREPARE") EXCEPT !.arg = 1]), "SELECT_POCKET", canon.endPoint)

ChangeToolNumber(max) ==
    /\ ncalls < max
    /\ Return(append(Cur, [Msg("EMC_TOOL_SET_NUMBER") EXCEPT !.arg = 1]), "CHANGE_TOOL_NUMBER",
              canon.endPoint)

CanonUpdateEndPoint(max, progs) ==
    /\ ncalls < max
    /\ \E prog \in progs :
           Return(canonUpdateEndPoint(Cur, from_prog(Cur, prog)), "CANON_UPDATE_END_POINT",
                  from_prog(Cur, prog))

SetOriginOffsets(max) ==
    /\ ncalls < max
    /\ \E prog \in {XYZ(10, 0, 0)}, g \in Garbage :
           Return(SET_ORIGIN_OFFSETS(Cur, prog, g), "SET_ORIGIN_OFFSETS", canon.endPoint)

SetXYRotation(max) ==
    /\ ncalls < max
    /\ \E t \in {90} : Return(SET_XY_ROTATION(Cur, t), "SET_XY_ROTATION", canon.endPoint)

UseLengthUnits(max) ==
    /\ ncalls < max
    /\ \E in_unit \in {"CANON_UNITS_INCHES", "CANON_UNITS_MM"} :
           Return(USE_LENGTH_UNITS(Cur, in_unit), "USE_LENGTH_UNITS", canon.endPoint)

SetFeedMode(max) ==
    /\ ncalls < max
    /\ \E mode \in {0, 1}, g \in Garbage :
           Return(SET_FEED_MODE(Cur, mode, g), "SET_FEED_MODE", canon.endPoint)

SetFeedRate(max, rates) ==
    /\ ncalls < max
    /\ \E rate \in rates, g \in Garbage :
           Return(SET_FEED_RATE(Cur, rate, g), "SET_FEED_RATE", canon.endPoint)

SetMotionControlMode(max) ==
    /\ ncalls < max
    /\ \E mode \in {"CANON_EXACT_STOP", "CANON_CONTINUOUS"}, g \in Garbage :
           Return(SET_MOTION_CONTROL_MODE(Cur, mode, 0, g), "SET_MOTION_CONTROL_MODE",
                  canon.endPoint)

SetNaivecamTolerance(max, tolerances) ==
    /\ ncalls < max
    /\ \E tolerance \in tolerances :
           Return(SET_NAIVECAM_TOLERANCE(Cur, tolerance), "SET_NAIVECAM_TOLERANCE",
                  canon.endPoint)

SelectPlane(max) ==
    /\ ncalls < max
    /\ \E in_plane \in {"CANON_PLANE_XZ"} :
           Return(SELECT_PLANE(Cur, in_plane), "SELECT_PLANE", canon.endPoint)

StartSpeedFeedSynch(max) ==
    /\ ncalls < max
    /\ \E g \in Garbage :
           Return(START_SPEED_FEED_SYNCH(Cur, 10, FALSE, g), "START_SPEED_FEED_SYNCH",
                  canon.endPoint)

StopSpeedFeedSynch(max) ==
    /\ ncalls < max
    /\ \E g \in Garbage :
           Return(STOP_SPEED_FEED_SYNCH(Cur, g), "STOP_SPEED_FEED_SYNCH", canon.endPoint)

UseToolLengthOffset(max) ==
    /\ ncalls < max
    /\ \E offs \in {XYZ(0, 0, 50)}, g \in Garbage :
           Return(USE_TOOL_LENGTH_OFFSET(Cur, offs, g), "USE_TOOL_LENGTH_OFFSET",
                  canon.endPoint)

SetSpindleMode(max) ==
    /\ ncalls < max
    /\ \E css_max \in {0, 100} :
           Return([Cur EXCEPT !.canon.css_maximum = css_max], "SET_SPINDLE_MODE", canon.endPoint)

SetSpindleSpeed(max) ==
    /\ ncalls < max
    /\ \E r \in {500}, g \in Garbage :
           Return(SET_SPINDLE_SPEED(Cur, r, g), "SET_SPINDLE_SPEED", canon.endPoint)

StartSpindleClockwise(max) ==
    /\ ncalls < max
    /\ \E g \in Garbage : Return(START_SPINDLE_CLOCKWISE(Cur, g), "START_SPINDLE_CLOCKWISE", canon.endPoint)

StartSpindleCounterclockwise(max) ==
    /\ ncalls < max
    /\ \E g \in Garbage : Return(START_SPINDLE_COUNTERCLOCKWISE(Cur, g), "START_SPINDLE_COUNTERCLOCKWISE", canon.endPoint)

\* STOP_SPINDLE_TURNING, FLOOD_ON, FLOOD_OFF, MIST_ON, MIST_OFF, DWELL,
\* SET_MOTION_OUTPUT_BIT, PROGRAM_STOP, OPTIONAL_PROGRAM_STOP and PROGRAM_END:
\* the call op flushes the
\* pending feeds and appends the one message of the given type
FlushAppendCall(max, op, type, arg) ==
    /\ ncalls < max
    /\ \E g \in Garbage : Return(FlushAppend(Cur, type, arg, g), op, canon.endPoint)

GetExternalQueueEmpty(max) ==
    /\ ncalls < max
    /\ \E g \in Garbage : Return(flush_segments(Cur, g), "GET_EXTERNAL_QUEUE_EMPTY", canon.endPoint)

TurnProbeOn(max) ==
    /\ ncalls < max
    /\ Return(append(Cur, Msg("EMC_TRAJ_CLEAR_PROBE_TRIPPED_FLAG")), "TURN_PROBE_ON", canon.endPoint)

\* the position returned is computed from the end point the call has set
GetExternalPosition(max) ==
    /\ ncalls < max
    /\ LET position(W) == to_prog(W, unoffset_and_unrotate_pos(W, W.canon.endPoint))
       IN  Returns(GET_EXTERNAL_POSITION(Cur), "GET_EXTERNAL_POSITION", canon.endPoint,
                   position(GET_EXTERNAL_POSITION(Cur)))
    /\ UNCHANGED <<probefile, last_probed_position>>

(***************************************************************************)
(* Spec: every canonical call, MaxCalls calls after the set-up             *)
(***************************************************************************)
InitCanon(max) ==
    /\ ncalls < max
    /\ \E g \in Garbage : Return(INIT_CANON(Cur, g), "INIT_CANON", ZeroPose)

Init == \E h \in {HostXYZ, HostXYZA} : Start(Preamble(h, 10, 600))

Next ==
    \/ StraightFeed(MaxCalls, Targets)
    \/ Finish(MaxCalls)
    \/ StraightTraverse(MaxCalls)
    \/ StraightProbe(MaxCalls)
    \/ RigidTap(MaxCalls)
    \/ ArcFeed(MaxCalls)
    \/ NurbsFeed3D(MaxCalls, {XYZ(100, 0, 0)}, {0}, MaxCalls)
    \/ ChangeTool(MaxCalls)
    \/ SelectPocket(MaxCalls)
    \/ ChangeToolNumber(MaxCalls)
    \/ CanonUpdateEndPoint(MaxCalls, {XYZ(100, 0, 50)})
    \/ SetOriginOffsets(MaxCalls)
    \/ SetXYRotation(MaxCalls)
    \/ UseLengthUnits(MaxCalls)
    \/ SetFeedMode(MaxCalls)
    \/ SetFeedRate(MaxCalls, {0, 1200})
    \/ SetMotionControlMode(MaxCalls)
    \/ SetNaivecamTolerance(MaxCalls, {0, 1})
    \/ SelectPlane(MaxCalls)
    \/ StartSpeedFeedSynch(MaxCalls)
    \/ StopSpeedFeedSynch(MaxCalls)
    \/ UseToolLengthOffset(MaxCalls)
    \/ SetSpindleMode(MaxCalls)
    \/ SetSpindleSpeed(MaxCalls)
    \/ StartSpindleClockwise(MaxCalls)
    \/ StartSpindleCounterclockwise(MaxCalls)
    \/ FlushAppendCall(MaxCalls, "STOP_SPINDLE_TURNING", "EMC_SPINDLE_OFF", 0)
    \/ FlushAppendCall(MaxCalls, "FLOOD_ON", "EMC_COOLANT_FLOOD_ON", 0)
    \/ FlushAppendCall(MaxCalls, "FLOOD_OFF", "EMC_COOLANT_FLOOD_OFF", 0)
    \/ FlushAppendCall(MaxCalls, "MIST_ON", "EMC_COOLANT_MIST_ON", 0)
    \/ FlushAppendCall(MaxCalls, "MIST_OFF", "EMC_COOLANT_MIST_OFF", 0)
    \/ FlushAppendCall(MaxCalls, "DWELL", "EMC_TRAJ_DELAY", 1)
    \/ FlushAppendCall(MaxCalls, "SET_MOTION_OUTPUT_BIT", "EMC_MOTION_SET_DOUT", 0)
    \/ FlushAppendCall(MaxCalls, "PROGRAM_STOP", "EMC_TASK_PLAN_PAUSE", 0)
    \/ FlushAppendCall(MaxCalls, "OPTIONAL_PROGRAM_STOP", "EMC_TASK_PLAN_OPTIONAL_STOP", 0)
    \/ FlushAppendCall(MaxCalls, "PROGRAM_END", "EMC_TASK_PLAN_END", 0)
    \/ GetExternalQueueEmpty(MaxCalls)
    \/ TurnProbeOn(MaxCalls)
    \/ GetExternalPosition(MaxCalls)
    \/ InitCanon(MaxCalls)

Spec == Init /\ [][Next]_vars

(***************************************************************************)
(* Claims checked under Spec                                               *)
(***************************************************************************)
\* C1: the messages of the interpreter list are in the order of the calls
\* that caused them: no message caused by a later call precedes the linear
\* move of an earlier STRAIGHT_FEED, also when that feed was still buffered
\* at the later call.
C1_DispatchOrder ==
    \A i, j \in 1..Len(interp_list) :
        i < j => interp_list[i].seq <= interp_list[j].seq

\* the calls that command a position
MotionCalls ==
    {"STRAIGHT_TRAVERSE", "STRAIGHT_FEED", "STRAIGHT_PROBE", "ARC_FEED", "NURBS_FEED_3D",
     "CHANGE_TOOL"}

\* C3: when a motion call has returned, endPoint is the world position
\* (internal units, rotated and offset) the call commanded.
C3_EndPointIsCommanded ==
    lastCall.op \in MotionCalls => canon.endPoint = lastCall.cmd

\* C4: the linear move emitted for buffered feeds is the move computed under
\* the state in force when the feed was issued: its end, its envelope, its
\* feed cap and its feed mode are those a flush at issue would have given,
\* whatever was called between the feed and the flush.
C4_ComputedAtIssue ==
    \A i \in 1..Len(interp_list) :
        LET m == interp_list[i]
        IN  m.fused > 0 =>
                /\ m.end = m.issue.end
                /\ m.vel = m.issue.vel
                /\ m.ini_maxvel = m.issue.ini_maxvel
                /\ m.acc = m.issue.acc
                /\ m.ini_maxjerk = m.issue.ini_maxjerk
                /\ m.feed_mode = m.issue.feed_mode

\* the state mutators that are to flush before they change the state
FlushingMutators ==
    {"SET_ORIGIN_OFFSETS", "SET_XY_ROTATION", "USE_LENGTH_UNITS", "SET_FEED_MODE",
     "SET_FEED_RATE", "SET_MOTION_CONTROL_MODE", "SET_SPINDLE_SPEED",
     "USE_TOOL_LENGTH_OFFSET"}

\* C5: each of the eight state mutators flushes the segment buffer before it
\* changes the canonical state, so the buffer is empty when it returns.
C5_MutatorsFlush ==
    lastCall.op \in FlushingMutators => chained_points = <<>>

(***************************************************************************)
(* SpecFeed: feeds and flushes on a millimetre machine, with and without a *)
(* rotary axis, MaxFeedCalls calls after the set-up.  Lengths are in ticks *)
(* of 0.01: the point (10,0,0) is XYZ(1000, 0, 0) and the tolerances 0.1   *)
(* and 0.01 are 10 ticks and 1 tick.  The feed rate starts at 600 or at 0, *)
(* the rate INIT_CANON leaves.                                             *)
(***************************************************************************)
FeedTargets ==
    {XYZ(1000, 0, 0), XYZ(2000, 5, 0), XYZ(3000, 0, 0)}
        \cup (IF axis_valid(Cur, 3) THEN {[XYZ(3000, 0, 0) EXCEPT !.a = 90]} ELSE {})

InitFeed ==
    \E h \in {HostXYZ, [HostXYZ EXCEPT !.axis_mask = {0, 1, 2, 3}]},
       tolerance \in {0, 1, 10}, rate \in {0, 600} :
        Start(Preamble(h, tolerance, rate))

NextFeed ==
    \/ StraightFeed(MaxFeedCalls, FeedTargets)
    \/ Finish(MaxFeedCalls)
    \/ SetNaivecamTolerance(MaxFeedCalls, {1})
    \/ SetFeedRate(MaxFeedCalls, {0, 600})
    \/ CanonUpdateEndPoint(MaxFeedCalls, {XYZ(0, 100, 0)})
    \/ SetMotionControlMode(MaxFeedCalls)
    \/ StartSpeedFeedSynch(MaxFeedCalls)

SpecFeed == InitFeed /\ [][NextFeed]_vars

\* the last buffered point
LastPoint == chained_points[Len(chained_points)]

\* the vector from B to P
Minus(P, B) == [x |-> P.x - B.x, y |-> P.y - B.y, z |-> P.z - B.z]

\* C2: when two or more points are buffered, every point before the last lies
\* within naivecamTolerance of the segment from endPoint to the last, so the
\* one move of the next flush passes within naivecamTolerance of each of them.
C2_FusionSafety ==
    Len(chained_points) >= 2 =>
        \A i \in 1..(Len(chained_points) - 1) :
            ~TooFar(canon.endPoint, Minus(LastPoint.p, canon.endPoint),
                    chained_points[i].p, canon.naivecamTolerance)

\* the messages a step appends, and that it does nothing else to the list
Appended == SubSeq(interp_list', Len(interp_list) + 1, Len(interp_list'))
ListGrows ==
    /\ Len(interp_list') >= Len(interp_list)
    /\ SubSeq(interp_list', 1, Len(interp_list)) = interp_list

\* msg is the linear feed move to the position p, under the line number line
IsFeedMove(msg, p, line) ==
    /\ msg.type = "EMC_TRAJ_LINEAR_MOVE"
    /\ msg.motion = "EMC_MOTION_TYPE_FEED"
    /\ msg.end = to_ext_pose(Cur, p)
    /\ msg.line = line

\* the move from W.canon.endPoint to p has a velocity and an acceleration
\* that are not zero, or is sent because the spindle is synchronised: some
\* axis of the machine travels and the feed rate that caps it is not zero
\* (the axis limits of the hosts are positive)
MoveIsSent(W, p) ==
    \/ W.canon.synched
    \/ /\ cartesian_move_of(W, p) \/ angular_move_of(W, p)
       /\ W.canon.linearFeedRate # 0
       /\ cartesian_move_of(W, p) \/ W.canon.angularFeedRate # 0

\* p has the a, b, c, u, v, w of q
SameRotaries(p, q) == \A ax \in {"a", "b", "c", "u", "v", "w"} : p[ax] = q[ax]

\* C6: a flush of a non-empty buffer appends at most one linear feed move,
\* which ends at the last buffered point under that point's line number, sets
\* endPoint to that point and empties the buffer; a flush of an empty buffer
\* appends nothing and changes nothing; a second flush changes nothing.
C6_FlushAlgebra ==
    [][lastCall'.op = "FINISH" =>
          /\ chained_points' = <<>>
          /\ ListGrows
          /\ IF chained_points = <<>>
             THEN Appended = <<>> /\ UNCHANGED <<canon, interp_line, emcStatus>>
             ELSE /\ Len(Appended) <= 1
                  /\ \A k \in 1..Len(Appended) :
                         IsFeedMove(Appended[k], LastPoint.p, LastPoint.line_no)
                  /\ canon'.endPoint = LastPoint.p
          /\ \A g \in Garbage : flush_segments(Cur', g) = Cur']_vars

\* FINISH has just flushed two or more points as one move
C6_Witness ==
    /\ lastCall.op = "FINISH"
    /\ interp_list # <<>>
    /\ interp_list[Len(interp_list)].at = ncalls
    /\ interp_list[Len(interp_list)].fused >= 2

\* a STRAIGHT_FEED whose point is linkable to the buffered points
LinkableFeed ==
    /\ lastCall'.op = "STRAIGHT_FEED"
    /\ chained_points # <<>>
    /\ linkable(Cur, lastCall'.cmd)

\* a FINISH that finds a run in the buffer: a first point and the points that
\* were linkable to it
FinishOfRun == lastCall'.op = "FINISH" /\ Len(chained_points) >= 2

\* C8: a STRAIGHT_FEED whose point is linkable appends no message and is
\* buffered, and the FINISH that follows a run appends exactly one linear
\* move, which ends at the last point of the run.
C8_LinkableRun ==
    [][/\ LinkableFeed =>
             /\ interp_list' = interp_list
             /\ Len(chained_points') = Len(chained_points) + 1
       /\ FinishOfRun =>
             /\ ListGrows
             /\ Len(Appended) = 1
             /\ IsFeedMove(Appended[1], LastPoint.p, LastPoint.line_no)]_vars

\* C8 amended: a STRAIGHT_FEED whose point is linkable and has the a, b, c, u,
\* v, w of endPoint appends no message and is buffered, and the FINISH that
\* follows a run appends exactly one linear move, which ends at the last
\* point of the run, when the velocity and the acceleration of that move are
\* not zero or the spindle is synchronised, and appends nothing otherwise.
C8_LinkableRunSent ==
    [][/\ LinkableFeed /\ SameRotaries(lastCall'.cmd, canon.endPoint) =>
             /\ interp_list' = interp_list
             /\ Len(chained_points') = Len(chained_points) + 1
       /\ FinishOfRun =>
             /\ ListGrows
             /\ IF MoveIsSent(Cur, LastPoint.p)
                THEN /\ Len(Appended) = 1
                     /\ IsFeedMove(Appended[1], LastPoint.p, LastPoint.line_no)
                ELSE Appended = <<>>]_vars

\* the feeds to (10,0,0), (20,0.05,0), (30,0,0) at tolerance 0.1 and the
\* FINISH have left one linear move, which replaces the three points
C8_Witness ==
    /\ ncalls = 4
    /\ lastCall.op = "FINISH"
    /\ canon.naivecamTolerance = 10
    /\ Cardinality({i \in 1..Len(interp_list) :
                       interp_list[i].type = "EMC_TRAJ_LINEAR_MOVE"}) = 1
    /\ interp_list[Len(interp_list)].fused = 3
    /\ interp_list[Len(interp_list)].end = XYZ(3000, 0, 0)

\* a STRAIGHT_FEED whose point is not linkable to the buffered points
UnlinkableFeed ==
    /\ lastCall'.op = "STRAIGHT_FEED"
    /\ chained_points # <<>>
    /\ ~linkable(Cur, lastCall'.cmd)

\* C9: a STRAIGHT_FEED whose point is not linkable to a non-empty buffer
\* emits exactly one linear move, which ends at the last buffered point,
\* before it stores its point; endPoint becomes that point and the buffer
\* then holds exactly the new point.
C9_UnlinkableFeed ==
    [][UnlinkableFeed =>
          /\ ListGrows
          /\ Len(Appended) = 1
          /\ IsFeedMove(Appended[1], LastPoint.p, LastPoint.line_no)
          /\ canon'.endPoint = LastPoint.p
          /\ Len(chained_points') = 1
          /\ chained_points'[1].p = lastCall'.cmd]_vars

\* C9 amended: a STRAIGHT_FEED whose point is not linkable to a non-empty
\* buffer first emits the linear move that ends at the last buffered point,
\* unless the velocity or the acceleration of that move is zero and the
\* spindle is not synchronised; when the new point has the a, b, c, u, v, w
\* of endPoint nothing else is emitted, endPoint becomes the last buffered
\* point and the buffer then holds exactly the new point; otherwise the new
\* point is flushed at once: the buffer is empty and endPoint is the new point.
C9_UnlinkableFeedSent ==
    [][UnlinkableFeed =>
          LET first == IF MoveIsSent(Cur, LastPoint.p) THEN 1 ELSE 0
          IN  /\ ListGrows
              /\ Len(Appended) >= first
              /\ first = 1 => IsFeedMove(Appended[1], LastPoint.p, LastPoint.line_no)
              /\ IF SameRotaries(lastCall'.cmd, canon.endPoint)
                 THEN /\ Len(Appended) = first
                      /\ canon'.endPoint = LastPoint.p
                      /\ Len(chained_points') = 1
                      /\ chained_points'[1].p = lastCall'.cmd
                      /\ chained_points'[1].line_no = lastCall'.line
                 ELSE /\ Len(Appended) <= first + 1
                      /\ canon'.endPoint = lastCall'.cmd
                      /\ chained_points' = <<>>]_vars

\* at tolerance 0.01 the feed to (30,0,0) has just emitted the move to
\* (20,0.05,0) and is buffered alone
C9_Witness ==
    /\ ncalls = 3
    /\ lastCall.op = "STRAIGHT_FEED"
    /\ Len(interp_list) = 3
    /\ interp_list[2].end = XYZ(1000, 0, 0)
    /\ canon.naivecamTolerance = 1
    /\ interp_list # <<>>
    /\ interp_list[Len(interp_list)].at = ncalls
    /\ interp_list[Len(interp_list)].end = XYZ(2000, 5, 0)
    /\ canon.endPoint = XYZ(2000, 5, 0)
    /\ Len(chained_points) = 1
    /\ chained_points[1].p = XYZ(3000, 0, 0)

\* fusion is disabled
FusionDisabled ==
    canon.naivecamTolerance = 0 \/ canon.motionMode # "CANON_CONTINUOUS"

FeedRatePositive == canon.linearFeedRate > 0 /\ canon.angularFeedRate > 0

\* p differs from q in an axis of the machine
Differs(p, q) ==
    \E ax \in AxisNames : AxisTravel(canonUpdateEndPoint(Cur, q), p, ax) # 0

\* the point before the one the next STRAIGHT_FEED names
PreviousPoint == IF chained_points = <<>> THEN canon.endPoint ELSE LastPoint.p

\* with fusion disabled at most one point is pending, and it differs from
\* the point before it
OnePending ==
    /\ FusionDisabled
    /\ FeedRatePositive
    /\ Len(chained_points) <= 1
    /\ chained_points # <<>> => Differs(LastPoint.p, canon.endPoint)

\* C10: with fusion disabled (naivecamTolerance = 0 or motionMode not
\* CONTINUOUS) and positive feed rates, a STRAIGHT_FEED to a point that
\* differs from the previous one never joins a pending point: the move to the
\* pending point is emitted first, for that point alone, and the new point is
\* left pending alone or emitted at once; FINISH emits the move to the pending
\* point.  So n feeds and FINISH emit n moves, one to each point, in issue order.
C10_FusionDisabled ==
    [][/\ lastCall'.op = "STRAIGHT_FEED" /\ OnePending
               /\ Differs(lastCall'.cmd, PreviousPoint) =>
             LET pending == Len(chained_points)
             IN  /\ ListGrows
                 /\ pending = 1 =>
                       /\ Len(Appended) >= 1
                       /\ IsFeedMove(Appended[1], LastPoint.p, LastPoint.line_no)
                       /\ Appended[1].fused = 1
                 /\ IF chained_points' = <<>>
                    THEN /\ Len(Appended) = pending + 1
                         /\ IsFeedMove(Appended[pending + 1], lastCall'.cmd, lastCall'.line)
                         /\ Appended[pending + 1].fused = 1
                    ELSE /\ Len(Appended) = pending
                         /\ Len(chained_points') = 1
                         /\ chained_points'[1].p = lastCall'.cmd
       /\ lastCall'.op = "FINISH" /\ OnePending /\ chained_points # <<>> =>
             /\ ListGrows
             /\ Len(Appended) = 1
             /\ IsFeedMove(Appended[1], LastPoint.p, LastPoint.line_no)
             /\ Appended[1].fused = 1
             /\ chained_points' = <<>>]_vars

\* at tolerance 0 the feeds to (10,0,0), (20,0.05,0), (30,0,0) and the FINISH
\* have left three linear moves, one to each point, in the order of the feeds
C10_Witness ==
    /\ ncalls = 4
    /\ lastCall.op = "FINISH"
    /\ canon.naivecamTolerance = 0
    /\ Len(interp_list) = 4
    /\ \A k \in 1..3 :
          /\ interp_list[k + 1].type = "EMC_TRAJ_LINEAR_MOVE"
          /\ interp_list[k + 1].seq = k
          /\ interp_list[k + 1].fused = 1
    /\ interp_list[2].end = XYZ(1000, 0, 0)
    /\ interp_list[3].end = XYZ(2000, 5, 0)
    /\ interp_list[4].end = XYZ(3000, 0, 0)

(***************************************************************************)
(* Long runs of feeds: up to MaxRunCalls calls, of which the first          *)
(* MaxRunPrefix may be arcs or FINISH and the others are STRAIGHT_FEEDs to  *)
(* one point, each linkable to the points before it.                       *)
(***************************************************************************)
InitRun == Start(Preamble(HostXYZ, 10, 600))

NextRun ==
    \/ StraightFeed(MaxRunCalls, {XYZ(1000, 0, 0)})
    \/ StraightFeed(MaxRunPrefix, {XYZ(2000, 5, 0), XYZ(0, 0, 0)})
    \/ ArcFeed(MaxRunPrefix)
    \/ Finish(MaxRunPrefix)

SpecRun == InitRun /\ [][NextRun]_vars

\* C7: in every reachable state the segment buffer holds at most 100 points.
C7_BufferBounded == Len(chained_points) <= ChainLimit

(***************************************************************************)
(* The envelope and the feed clamp                                         *)
(***************************************************************************)
\* C11: on the millimetre XYZ machine (max velocity 100, acceleration 1000,
\* jerk 10000 on every axis) with zero offsets, SET_FEED_RATE(600), then
\* STRAIGHT_FEED(line 10, x=10, y=0, z=0), then a flush yield exactly one
\* LINEAR_MOVE, with end.tran.x = 10, vel = 10, ini_maxvel = 100, acc = 1000,
\* ini_maxjerk = 10000 and feed mode 0.
C11_FeedScenario ==
    [][/\ emcStatus = HostXYZ
       /\ canon.linearFeedRate = 10
       /\ canon.programOrigin = ZeroPose /\ canon.toolOffset = ZeroPose
       /\ ncalls = 1
       /\ lastCall.op = "STRAIGHT_FEED" /\ lastCall.cmd = XYZ(1000, 0, 0)
       /\ lastCall'.op = "FINISH"
       => /\ Len(interp_list) = 1
          /\ ListGrows
          /\ Len(Appended) = 1
          /\ Appended[1].type = "EMC_TRAJ_LINEAR_MOVE"
          /\ Appended[1].end = XYZ(1000, 0, 0)
          /\ Appended[1].vel = 10
          /\ Appended[1].ini_maxvel = 100
          /\ Appended[1].acc = 1000
          /\ Appended[1].ini_maxjerk = 10000
          /\ Appended[1].feed_mode = 0]_vars

\* the last message a step appends
LastAppended == interp_list'[Len(interp_list')]

\* a step that emits one feed or probe move whose start is known: a FINISH,
\* a STRAIGHT_PROBE, or a STRAIGHT_FEED that finds the buffer empty and
\* flushes its own point
EmitsFeedOrProbe ==
    /\ ListGrows
    /\ Len(Appended) >= 1
    /\ \/ lastCall'.op \in {"FINISH", "STRAIGHT_PROBE"}
       \/ lastCall'.op = "STRAIGHT_FEED" /\ chained_points = <<>>
    /\ LastAppended.motion \in {"EMC_MOTION_TYPE_FEED", "EMC_MOTION_TYPE_PROBING"}

\* the world a call finds once it has flushed the pending feeds
AfterFlush ==
    IF chained_points # <<>> THEN canonUpdateEndPoint(Cur, LastPoint.p) ELSE Cur

\* the world in which that move starts: a probe starts where the flush of
\* the pending feeds ends
MoveStart == IF lastCall'.op = "STRAIGHT_PROBE" THEN AfterFlush ELSE Cur

\* the move is a pure angular one
PureAngular == canon'.angular_move /\ ~canon'.cartesian_move

\* C12: the vel of every emitted feed or probe move is the lesser of the
\* envelope velocity and linearFeedRate for a linear or combined move, and the
\* lesser of the envelope velocity and angularFeedRate for a pure angular move,
\* where the envelope velocity is the least of the moving axes' max velocities
\* alone: linearFeedRate plays no part in the vel of a pure angular move.
C12_FeedClamp ==
    [][EmitsFeedOrProbe /\ (canon'.angular_move \/ canon'.cartesian_move) =>
          LastAppended.vel =
              toExtVel(Cur', MIN(StraightLimit(MoveStart, canon'.endPoint, "Velocity", 0),
                                 IF PureAngular THEN canon.angularFeedRate
                                 ELSE canon.linearFeedRate))]_vars

\* the messages of the motion type motion that a step appends
AppendedOf(motion) == SelectSeq(Appended, LAMBDA m : m.motion = motion)

\* some axis of the machine travels from the flushed position to p
Travels(p) == cartesian_move_of(AfterFlush, p) \/ angular_move_of(AfterFlush, p)

\* C13: STRAIGHT_TRAVERSE emits a linear message of type TRAVERSE whose vel
\* and ini_maxvel are both the kinematic envelope velocity (the least of the
\* moving axes' max velocities), whatever linearFeedRate is, and drops the
\* message only when that envelope velocity or the acceleration is zero.
C13_TraverseEnvelope ==
    [][lastCall'.op = "STRAIGHT_TRAVERSE" /\ Travels(lastCall'.cmd) =>
          LET sent == AppendedOf("EMC_MOTION_TYPE_TRAVERSE")
              vel == StraightLimit(AfterFlush, lastCall'.cmd, "Velocity", 0)
              acc == getStraightAcceleration(AfterFlush, lastCall'.cmd)
          IN  /\ ListGrows
              /\ IF vel # 0 /\ acc # 0
                 THEN /\ Len(sent) = 1
                      /\ sent[1].type = "EMC_TRAJ_LINEAR_MOVE"
                      /\ sent[1].vel = toExtVel(Cur', vel)
                      /\ sent[1].ini_maxvel = toExtVel(Cur', vel)
                 ELSE sent = <<>>]_vars

(***************************************************************************)
(* Traverses and rigid taps                                                *)
(***************************************************************************)
\* what a message is, among those a traverse can append
KindOf(m) ==
    IF m.motion = "EMC_MOTION_TYPE_FEED" THEN "feed"
    ELSE IF m.motion = "EMC_MOTION_TYPE_TRAVERSE" THEN "traverse"
    ELSE IF m.type # "EMC_TRAJ_SET_SPINDLESYNC" THEN "other"
    ELSE IF m.motion = "velocity_mode" THEN "start"
    ELSE IF m.arg = 0 THEN "stop"
    ELSE "other"

Kinds(msgs) == [i \in 1..Len(msgs) |-> KindOf(msgs[i])]

\* the traverse to p passes the test on its velocity and acceleration
TraverseIsSent(p) ==
    /\ Travels(p)
    /\ getStraightVelocity(AfterFlush, p, 0) # 0
    /\ getStraightAcceleration(AfterFlush, p) # 0

\* what a STRAIGHT_TRAVERSE appends when it stops and restarts the
\* synchronisation (stopped) or does not: at most one move for the pending
\* feeds, then the stop, the traverse if it is sent, and the start
TraverseAppends(stopped) ==
    /\ ListGrows
    /\ \E pending \in {<<>>} \cup (IF chained_points # <<>> THEN {<<"feed">>} ELSE {}) :
           Kinds(Appended) =
               pending \o (IF stopped THEN <<"stop">> ELSE <<>>)
                       \o (IF TraverseIsSent(lastCall'.cmd) THEN <<"traverse">> ELSE <<>>)
                       \o (IF stopped THEN <<"start">> ELSE <<>>)
    /\ canon'.synched = (stopped \/ canon.synched)

\* C14: when spindle-synchronised feed is on (canon.synched) at entry,
\* STRAIGHT_TRAVERSE appends, in this order, any move for the pending buffered
\* feeds, a spindle-sync stop message, the traverse move and a spindle-sync
\* start message, and synchronisation is on again when it returns.
C14_TraverseResynch ==
    [][lastCall'.op = "STRAIGHT_TRAVERSE" /\ canon.synched => TraverseAppends(TRUE)]_vars

\* C14 as the code has it: the stop and the start are appended when
\* canon.feed_mode is not zero at entry, whatever canon.synched is, and
\* synchronisation is then on at the return; with feed_mode zero neither is
\* appended and canon.synched stays as it was.
C14_TraverseResynchByFeedMode ==
    [][lastCall'.op = "STRAIGHT_TRAVERSE" => TraverseAppends(canon.feed_mode # 0)]_vars

\* a traverse in feed-per-revolution mode has flushed a pending feed and has
\* appended the stop, the traverse and the start after its move
C14_Witness ==
    /\ lastCall.op = "STRAIGHT_TRAVERSE"
    /\ canon.feed_mode # 0 /\ canon.synched
    /\ Len(interp_list) >= 4
    /\ Kinds(SubSeq(interp_list, Len(interp_list) - 3, Len(interp_list)))
           = <<"feed", "stop", "traverse", "start">>
    /\ interp_list[Len(interp_list) - 3].at = ncalls

\* C15: RIGID_TAP does not move endPoint to the tap target: when it has
\* returned, endPoint is the position reached by the feeds issued before it
\* (the last pending buffered point if there is one, else the endPoint it
\* found), and the segment buffer is empty.
C15_RigidTapKeepsEndPoint ==
    [][lastCall'.op = "RIGID_TAP" =>
          /\ canon'.endPoint = AfterFlush.canon.endPoint
          /\ chained_points' = <<>>]_vars

\* a rigid tap has flushed a pending feed and sent its message to a target
\* that is not where the feed ended, and endPoint is where the feed ended
C15_Witness ==
    /\ lastCall.op = "RIGID_TAP"
    /\ Len(interp_list) >= 2
    /\ interp_list[Len(interp_list)].type = "EMC_TRAJ_RIGID_TAP"
    /\ interp_list[Len(interp_list) - 1].motion = "EMC_MOTION_TYPE_FEED"
    /\ interp_list[Len(interp_list) - 1].at = ncalls
    /\ interp_list[Len(interp_list) - 1].end = to_ext_pose(Cur, canon.endPoint)
    /\ interp_list[Len(interp_list)].end # to_ext_pose(Cur, canon.endPoint)
    /\ chained_points = <<>>

\* C16: RIGID_TAP flushes the pending feeds before it computes its envelope:
\* the vel, ini_maxvel and acc of the RIGID_TAP message are those of the
\* displacement from the position reached by the last feed issued before it
\* to the tap target, so an axis that does not move during the tap never
\* limits them.
C16_TapEnvelopeAfterFlush ==
    [][/\ lastCall'.op = "RIGID_TAP"
       /\ ListGrows /\ Len(Appended) >= 1
       /\ LastAppended.type = "EMC_TRAJ_RIGID_TAP"
       => LET p == from_ext_pose(Cur, LastAppended.end)
              F == SetMoveFlags(AfterFlush, p)
          IN  /\ LastAppended.vel = toExtVel(F, getStraightVelocity(AfterFlush, p, 0))
              /\ LastAppended.ini_maxvel = LastAppended.vel
              /\ LastAppended.acc = toExtAcc(F, getStraightAcceleration(AfterFlush, p))]_vars

(***************************************************************************)
(* Arcs                                                                    *)
(***************************************************************************)
\* the step is the ARC_FEED of the arc
IsArcFeedOf(arc) ==
    /\ lastCall'.op = "ARC_FEED"
    /\ lastCall'.cmd = ArcEnd(arc, arc.rest)
    /\ \E g \in Garbage :
           LET W == ARC_FEED(Cur, NextLine, arc.first_end, arc.second_end, arc.first_axis,
                             arc.second_axis, arc.rotation, arc.axis_end_point, arc.rest, g)
           IN  canon' = W.canon /\ chained_points' = W.pts /\ interp_list' = W.list

\* ARC_FEED degrades the arc to two chords
Degraded(arc) ==
    LET k == ArcChord(Cur, arc.first_end, arc.second_end, arc.first_axis,
                      arc.second_axis, arc.rotation)
    IN  /\ canon.activePlane = "CANON_PLANE_XY"
        /\ canon.motionMode = "CANON_CONTINUOUS"
        /\ chord_deviation(k.sx, k.sy, k.ex, k.ey, k.cx, k.cy, arc.rotation).dev
               < canon.naivecamTolerance

\* the arc to the position end has a velocity and an acceleration that are
\* not zero
ArcIsSent(end) ==
    /\ MIN(ArcLimit(AfterFlush, end, "Velocity"), canon.linearFeedRate) # 0
    /\ ArcLimit(AfterFlush, end, "Acceleration") # 0

\* the message is that of the arc: a linear move for rotation 0, else a
\* circular move with its turn
IsArcMsg(m, arc) ==
    /\ m.motion = "EMC_MOTION_TYPE_ARC"
    /\ m.end = to_ext_pose(Cur, lastCall'.cmd)
    /\ IF arc.rotation = 0 THEN m.type = "EMC_TRAJ_LINEAR_MOVE"
       ELSE /\ m.type = "EMC_TRAJ_CIRCULAR_MOVE"
            /\ m.arg = IF arc.rotation > 0 THEN arc.rotation - 1 ELSE arc.rotation

\* C17: an ARC_FEED that is not degraded to chords flushes the buffer and
\* appends exactly one message when vel and acc are not zero (after at most
\* one move for the pending feeds): a LINEAR move typed ARC for rotation 0,
\* else a CIRCULAR move with turn = rotation - 1 when rotation > 0 and
\* turn = rotation when rotation < 0; it then sets endPoint to the arc end.
\* From (0,0,0), rotation 1 to (10,0,0) about (5,0) in the XY plane gives the
\* center (5,0,0), the normal (0,0,1) and turn 0.
C17_ArcMessage ==
    [][lastCall'.op = "ARC_FEED" =>
       \A arc \in Arcs :
          IsArcFeedOf(arc) /\ ~Degraded(arc) =>
              /\ chained_points' = <<>>
              /\ canon'.endPoint = lastCall'.cmd
              /\ ListGrows
              /\ Len(Appended) <= 2
              /\ Len(AppendedOf("EMC_MOTION_TYPE_ARC"))
                     = (IF ArcIsSent(lastCall'.cmd) THEN 1 ELSE 0)
              /\ Len(Appended) = 2 =>
                     chained_points # <<>> /\ KindOf(Appended[1]) = "feed"
              /\ ArcIsSent(lastCall'.cmd) =>
                     /\ IsArcMsg(LastAppended, arc)
                     /\ /\ arc = [first_end |-> 1000, second_end |-> 0, first_axis |-> 500,
                                  second_axis |-> 0, rotation |-> 1, axis_end_point |-> 0,
                                  rest |-> ZeroPose]
                        /\ emcStatus = HostXYZ
                        /\ ncalls = 0
                        => /\ LastAppended.center = [x |-> 500, y |-> 0, z |-> 0]
                           /\ LastAppended.normal = [x |-> 0, y |-> 0, z |-> 1]
                           /\ LastAppended.arg = 0
              /\ ~ArcIsSent(lastCall'.cmd) => Len(Appended) <= 1]_vars

\* the half turn from (0,0,0) to (10,0,0) about (5,0) is the program's first
\* call and has sent its circular move
C17_Witness ==
    /\ lastCall.op = "ARC_FEED" /\ ncalls = 1
    /\ emcStatus = HostXYZ
    /\ Len(interp_list) >= 1
    /\ interp_list[Len(interp_list)].type = "EMC_TRAJ_CIRCULAR_MOVE"
    /\ interp_list[Len(interp_list)].end = XYZ(1000, 0, 0)
    /\ interp_list[Len(interp_list)].at = 1
    /\ canon.endPoint = XYZ(1000, 0, 0)

(***************************************************************************)
(* From program coordinates to world coordinates                           *)
(***************************************************************************)
\* the calls that take the nine coordinates of a program position
ProgramMoves == {"STRAIGHT_FEED", "STRAIGHT_TRAVERSE", "STRAIGHT_PROBE", "ARC_FEED"}

\* the position the last call has buffered or, with nothing buffered, set as
\* its end point
Committed == IF chained_points # <<>> THEN LastPoint.p ELSE canon.endPoint

\* C18: every motion dispatch converts the nine program coordinates with
\* from_prog (lengths scaled by 25.4, 10 or 1) and then rotate_and_offset_pos
\* before they are buffered or set as the end point; the end point of ARC_FEED
\* has x, y rotated by xy_rotation and u, v, w equal to the scaled program
\* value plus programOrigin plus toolOffset, in its degraded path as in its
\* circular path.
C18_ProgramToWorld ==
    lastCall.op \in ProgramMoves => Committed = lastCall.cmd

(***************************************************************************)
(* The zero-motion guard                                                   *)
(***************************************************************************)
\* the messages that command a motion: feeds, traverses, arcs and tool-change
\* moves, probes, rigid taps and NURBS moves
MotionTypes ==
    {"EMC_TRAJ_LINEAR_MOVE", "EMC_TRAJ_CIRCULAR_MOVE", "EMC_TRAJ_PROBE",
     "EMC_TRAJ_RIGID_TAP", "EMC_TRAJ_NURBS_MOVE"}

\* C19: no motion message (feed, traverse, probe, rigid tap, arc, tool-change
\* move, NURBS move) whose vel or acc is zero is ever appended to the
\* interpreter list unless spindle synchronisation is active.
C19_ZeroMotionGuard ==
    [][ListGrows =>
          \A i \in 1..Len(Appended) :
              /\ Appended[i].type \in MotionTypes
              /\ Appended[i].vel = 0 \/ Appended[i].acc = 0
              => canon.synched]_vars

(***************************************************************************)
(* Constant surface speed                                                  *)
(***************************************************************************)
\* C20: in every reachable state css_numerator is non-zero if and only if CSS
\* mode is active (css_maximum > 0), whatever the interleaving of
\* SET_SPINDLE_MODE, SET_SPINDLE_SPEED, START_SPINDLE_CLOCKWISE,
\* START_SPINDLE_COUNTERCLOCKWISE and INIT_CANON.
C20_CssNumerator == canon.css_numerator # 0 <=> canon.css_maximum > 0

\* the calls that compute css_numerator
SpindleCalls ==
    {"SET_SPINDLE_SPEED", "START_SPINDLE_CLOCKWISE", "START_SPINDLE_COUNTERCLOCKWISE"}

\* C20 as the code has it: when one of the three spindle calls returns,
\* css_numerator is non-zero if and only if CSS mode is active and spindleSpeed
\* is not zero; SET_SPINDLE_MODE changes css_maximum alone, INIT_CANON zeroes
\* both, and every other call leaves both as they were.
C20_CssNumeratorAtSpindleCalls ==
    [][/\ lastCall'.op \in SpindleCalls =>
              /\ canon'.css_numerator # 0
                     <=> (canon.css_maximum # 0 /\ canon'.spindleSpeed # 0)
              /\ canon'.css_maximum = canon.css_maximum
       /\ lastCall'.op = "INIT_CANON" =>
              canon'.css_numerator = 0 /\ canon'.css_maximum = 0
       /\ lastCall'.op \notin SpindleCalls \cup {"INIT_CANON"} =>
              /\ canon'.css_numerator = canon.css_numerator
              /\ lastCall'.op # "SET_SPINDLE_MODE" => canon'.css_maximum = canon.css_maximum]_vars

\* CSS mode was set and SET_SPINDLE_SPEED has computed a numerator
C20_Witness ==
    /\ lastCall.op = "SET_SPINDLE_SPEED"
    /\ canon.css_maximum = 100
    /\ canon.spindleSpeed = 500
    /\ canon.css_numerator # 0
    /\ interp_list[Len(interp_list)].factor = canon.css_numerator

(***************************************************************************)
(* The spindle commands                                                    *)
(***************************************************************************)
\* the four spindle commands
SpindleCommands == SpindleCalls \cup {"STOP_SPINDLE_TURNING"}

\* the type of the message a spindle command sends
SpindleType(op) ==
    IF op = "SET_SPINDLE_SPEED" THEN "EMC_SPINDLE_SPEED"
    ELSE IF op = "STOP_SPINDLE_TURNING" THEN "EMC_SPINDLE_OFF"
    ELSE "EMC_SPINDLE_ON"

\* the message carries css_maximum, the css_numerator the call has left and
\* the x offset in external units
CarriesCss(m) ==
    /\ m.arg = canon.css_maximum
    /\ m.factor = canon'.css_numerator
    /\ m.xoffset = TO_EXT_LEN(Cur, canon.programOrigin.x + canon.toolOffset.x)

\* C21: when css_maximum > 0, each spindle command (START_SPINDLE_CLOCKWISE,
\* START_SPINDLE_COUNTERCLOCKWISE, SET_SPINDLE_SPEED, STOP_SPINDLE_TURNING)
\* appends both a spindle-speed message carrying css_maximum, css_numerator
\* and the x offset, and the message of the requested state change.
C21_SpeedAndStateChange ==
    [][lastCall'.op \in SpindleCommands /\ canon.css_maximum > 0 =>
          /\ ListGrows
          /\ \E i \in 1..Len(Appended) :
                 Appended[i].type = "EMC_SPINDLE_SPEED" /\ CarriesCss(Appended[i])
          /\ \E i \in 1..Len(Appended) :
                 Appended[i].type = SpindleType(lastCall'.op)]_vars

\* C21 as the code has it: each spindle command flushes the buffer and
\* appends one message, that of the requested change (after at most one move
\* for the pending feeds); when css_maximum is not zero the message of
\* START_SPINDLE_CLOCKWISE, START_SPINDLE_COUNTERCLOCKWISE and
\* SET_SPINDLE_SPEED itself carries css_maximum, css_numerator and the x
\* offset, and the message of STOP_SPINDLE_TURNING carries nothing.
C21_OneSpindleMessage ==
    [][lastCall'.op \in SpindleCommands =>
          /\ ListGrows
          /\ chained_points' = <<>>
          /\ Len(Appended) \in {1, 2}
          /\ Len(Appended) = 2 =>
                 chained_points # <<>> /\ KindOf(Appended[1]) = "feed"
          /\ LastAppended.type = SpindleType(lastCall'.op)
          /\ lastCall'.op \in SpindleCalls /\ canon.css_maximum # 0 =>
                 CarriesCss(LastAppended)
          /\ lastCall'.op = "STOP_SPINDLE_TURNING" =>
                 /\ LastAppended.arg = 0
                 /\ LastAppended.factor = 0
                 /\ LastAppended.xoffset = 0]_vars

\* in CSS mode at 500 rpm START_SPINDLE_CLOCKWISE has sent its one message,
\* which carries css_maximum and the numerator
C21_Witness ==
    /\ lastCall.op = "START_SPINDLE_CLOCKWISE"
    /\ canon.css_maximum = 100
    /\ canon.spindleSpeed = 500
    /\ Len(interp_list) >= 2
    /\ interp_list[Len(interp_list)].type = "EMC_SPINDLE_ON"
    /\ interp_list[Len(interp_list)].arg = 100
    /\ interp_list[Len(interp_list)].factor = canon.css_numerator
    /\ interp_list[Len(interp_list) - 1].type = "EMC_SPINDLE_SPEED"

(***************************************************************************)
(* SpecQuery: INIT_CANON, the probe log and the queries that reject their   *)
(* argument, after the set-up and among feeds and changes of the offsets   *)
(***************************************************************************)
\* the motion controller latches a probed position into emcStatus
ProbeTrips(max) ==
    /\ ncalls < max
    /\ \E pos \in {XYZ(0, 0, 0), XYZ(20, 0, -50)} :
           /\ pos # emcStatus.probedPosition
           /\ emcStatus' = [emcStatus EXCEPT !.probedPosition = pos]
    /\ UNCHANGED <<canon, chained_points, interp_list, interp_line, ncalls, lastCall,
                   returned, probefile, last_probed_position>>

\* COMMENT with the hot comments PROBEOPEN (fopen succeeds or fails) and
\* PROBECLOSE, or any other text.  RPY sets the static quat alone, which
\* nothing else reads.
Comment(max) ==
    /\ ncalls < max
    /\ \E comment \in {"PROBEOPEN", "PROBECLOSE", "RPY"}, opened \in BOOLEAN, g \in Garbage :
           /\ comment # "PROBEOPEN" => opened
           /\ IF comment = "PROBEOPEN" /\ ~opened
              THEN Returns(FlushAppend(Cur, "EMC_OPERATOR_DISPLAY", 0, g), "COMMENT",
                           canon.endPoint, 0)
              ELSE Returns(Cur, "COMMENT", canon.endPoint, 0)
           /\ probefile' =
                  IF comment = "PROBEOPEN"
                  THEN [open |-> opened, lines |-> IF opened THEN <<>> ELSE probefile.lines]
                  ELSE IF comment = "PROBECLOSE" THEN [probefile EXCEPT !.open = FALSE]
                  ELSE probefile
           /\ UNCHANGED last_probed_position

GetExternalProbePosition(max) ==
    /\ ncalls < max
    /\ \E g \in Garbage :
           LET position(W) ==
                   to_prog(W, unoffset_and_unrotate_pos(W,
                                  from_ext_pose(W, W.host.probedPosition)))
               log(W, pos) ==
                   /\ Returns(W, "GET_EXTERNAL_PROBE_POSITION", canon.endPoint, pos)
                   /\ IF probefile.open /\ last_probed_position # pos
                      THEN /\ probefile' = [probefile EXCEPT !.lines = Append(@, pos)]
                           /\ last_probed_position' = pos
                      ELSE UNCHANGED <<probefile, last_probed_position>>
               flushed(W) == log(W, position(W))
           IN  flushed(flush_segments(Cur, g))

GetExternalToolTable(max) ==
    /\ ncalls < max
    /\ \E pocket \in {-1, 0, CANON_POCKETS_MAX - 1, CANON_POCKETS_MAX} :
           Returns(Cur, "GET_EXTERNAL_TOOL_TABLE", pocket,
                   IF pocket < 0 \/ pocket >= CANON_POCKETS_MAX
                   THEN [toolno |-> -1, offset |-> ZeroPose, frontangle |-> 0,
                         backangle |-> 0, diameter |-> 0, orientation |-> 0]
                   ELSE emcStatus.toolTable[pocket])
    /\ UNCHANGED <<probefile, last_probed_position>>

GetExternalDigitalInput(max) ==
    /\ ncalls < max
    /\ \E index \in {-1, 0, 1, EMCMOT_MAX_DIO} :
           Returns(Cur, "GET_EXTERNAL_DIGITAL_INPUT", index,
                   IF index < 0 \/ index >= EMCMOT_MAX_DIO THEN -1
                   ELSE IF emcStatus.input_timeout = 1 THEN -1
                   ELSE IF emcStatus.synch_di[index] # 0 THEN 1 ELSE 0)
    /\ UNCHANGED <<probefile, last_probed_position>>

\* the printf ahead of the range test reads analog_input[index] whatever the
\* index is: out of the array the read is undefined, it yields some value (and
\* the call goes on to return -1) or it ends the process
GetExternalAnalogInput(max) ==
    /\ ncalls < max
    /\ \E index \in {-1, 0, 1, EMCMOT_MAX_AIO} :
           \/ Returns(Cur, "GET_EXTERNAL_ANALOG_INPUT", index,
                      IF index < 0 \/ index >= EMCMOT_MAX_AIO THEN -1
                      ELSE IF emcStatus.input_timeout = 1 THEN -1
                      ELSE emcStatus.analog_input[index])
           \/ /\ index < 0 \/ index >= EMCMOT_MAX_AIO
              /\ ncalls' = max
              /\ lastCall' = [op |-> "GET_EXTERNAL_ANALOG_INPUT", cmd |-> index,
                              line |-> NextLine]
              /\ returned' = [kind |-> "SIGSEGV", val |-> 0]
              /\ UNCHANGED <<canon, chained_points, interp_list, interp_line, emcStatus>>
    /\ UNCHANGED <<probefile, last_probed_position>>

\* WAIT(index, input_type, wait_type, timeout), for the wait type 0 and the
\* timeout 1
Wait(max) ==
    /\ ncalls < max
    /\ \E index \in {-1, 0, EMCMOT_MAX_AIO, EMCMOT_MAX_DIO},
          input_type \in {"DIGITAL_INPUT", "ANALOG_INPUT"}, g \in Garbage :
           IF \/ input_type = "DIGITAL_INPUT" /\ (index < 0 \/ index >= EMCMOT_MAX_DIO)
              \/ input_type = "ANALOG_INPUT" /\ (index < 0 \/ index >= EMCMOT_MAX_AIO)
           THEN Returns(Cur, "WAIT", [index |-> index, input_type |-> input_type], -1)
           ELSE Returns(append(flush_segments(Cur, g),
                               [Msg("EMC_AUX_INPUT_WAIT") EXCEPT
                                   !.arg = index, !.motion = input_type]),
                        "WAIT", [index |-> index, input_type |-> input_type], 0)
    /\ UNCHANGED <<probefile, last_probed_position>>

InitQuery == \E h \in {HostXYZ, HostXYZA} : Start(Preamble(h, 10, 600))

NextQuery ==
    \/ StraightFeed(MaxQueryCalls, {XYZ(100, 0, 0)})
    \/ SetOriginOffsets(MaxQueryCalls)
    \/ InitCanon(MaxQueryCalls)
    \/ ProbeTrips(MaxQueryCalls)
    \/ Comment(MaxQueryCalls)
    \/ GetExternalProbePosition(MaxQueryCalls)
    \/ GetExternalToolTable(MaxQueryCalls)
    \/ GetExternalDigitalInput(MaxQueryCalls)
    \/ GetExternalAnalogInput(MaxQueryCalls)
    \/ Wait(MaxQueryCalls)

SpecQuery == InitQuery /\ [][NextQuery]_vars

(***************************************************************************)
(* Initialisation                                                          *)
(***************************************************************************)
\* C22: INIT_CANON resets the canonical state and clears the segment buffer:
\* on return the buffer is empty (the pending feeds are discarded, no move is
\* appended), endPoint, programOrigin and toolOffset are zero,
\* xy_rotation = 0, feed_mode = 0, synched is off, css_maximum and
\* css_numerator are 0, the linear and angular feed rates are 0,
\* naivecamTolerance = 0, motionMode is CONTINUOUS and activePlane is XY.
C22_InitCanonResets ==
    [][lastCall'.op = "INIT_CANON" =>
          /\ chained_points' = <<>>
          /\ ListGrows
          /\ \A i \in 1..Len(Appended) : Appended[i].type \notin MotionTypes
          /\ canon'.endPoint = ZeroPose
          /\ canon'.programOrigin = ZeroPose
          /\ canon'.toolOffset = ZeroPose
          /\ canon'.xy_rotation = 0
          /\ canon'.feed_mode = 0
          /\ ~canon'.synched
          /\ canon'.css_maximum = 0 /\ canon'.css_numerator = 0
          /\ canon'.linearFeedRate = 0 /\ canon'.angularFeedRate = 0
          /\ canon'.naivecamTolerance = 0
          /\ canon'.motionMode = "CANON_CONTINUOUS"
          /\ canon'.activePlane = "CANON_PLANE_XY"]_vars

\* INIT_CANON was called a second time, after two calls of the program, and
\* has zeroed the feed rate of the set-up; no move is in the list
C22_Witness ==
    /\ lastCall.op = "INIT_CANON" /\ ncalls = 3
    /\ chained_points = <<>>
    /\ canon.linearFeedRate = 0
    /\ canon.endPoint = ZeroPose
    /\ \A i \in 1..Len(interp_list) : interp_list[i].type \notin MotionTypes
    /\ interp_list[Len(interp_list)].type = "EMC_TRAJ_SET_TERM_COND"
    /\ interp_list[Len(interp_list)].seq = 3

(***************************************************************************)
(* The position queries                                                    *)
(***************************************************************************)
\* C23: GET_EXTERNAL_POSITION empties the segment buffer without appending
\* any message, sets endPoint to the machine position converted to internal
\* units, and returns that position unoffset, unrotated and converted to
\* program units (in millimetres, where the conversions are exact, the
\* program position returned is the one whose world position is endPoint).
C23_GetExternalPosition ==
    [][lastCall'.op = "GET_EXTERNAL_POSITION" =>
          /\ chained_points' = <<>>
          /\ interp_list' = interp_list
          /\ canon' = [canon EXCEPT !.endPoint = from_ext_pose(Cur, emcStatus.position)]
          /\ returned'.kind = "value"
          /\ returned'.val = to_prog(Cur, unoffset_and_unrotate_pos(Cur, canon'.endPoint))
          /\ canon.lengthUnits = "CANON_UNITS_MM" =>
                 rotate_and_offset_pos(Cur, from_prog(Cur, returned'.val)) = canon'.endPoint]_vars

\* on the millimetre machine at (3, 0, 0), under a rotation of 90 degrees and
\* the origin offset, the call has returned the program position
C23_Witness ==
    /\ lastCall.op = "GET_EXTERNAL_POSITION"
    /\ canon.xy_rotation = 90
    /\ canon.programOrigin = XYZ(10, 0, 0)
    /\ canon.endPoint = XYZ(300, 0, 0)
    /\ returned.val = XYZ(0, -290, 0)

\* C24: while a probe file is open, each GET_EXTERNAL_PROBE_POSITION call
\* writes exactly one line if the probed position in program units differs
\* from the one logged before it (also when none was logged before it) and
\* writes nothing if it is equal; with no file open nothing is written; so
\* the file holds one line for each changed probed sample.
C24_ProbeLog ==
    [][lastCall'.op = "GET_EXTERNAL_PROBE_POSITION" =>
          /\ returned'.val = to_prog(Cur', unoffset_and_unrotate_pos(Cur',
                                  from_ext_pose(Cur', emcStatus.probedPosition)))
          /\ probefile'.open = probefile.open
          /\ probefile'.lines =
                 IF /\ probefile.open
                    /\ \/ probefile.lines = <<>>
                       \/ probefile.lines[Len(probefile.lines)] # returned'.val
                 THEN Append(probefile.lines, returned'.val)
                 ELSE probefile.lines]_vars

\* the queries of the model other than the two position queries
Queries ==
    {"GET_EXTERNAL_QUEUE_EMPTY", "GET_EXTERNAL_TOOL_TABLE",
     "GET_EXTERNAL_DIGITAL_INPUT", "GET_EXTERNAL_ANALOG_INPUT"}

\* C25: apart from GET_EXTERNAL_POSITION and GET_EXTERNAL_PROBE_POSITION, no
\* GET_EXTERNAL_* query (queue state, length units, tool, coolant, overrides,
\* axis mask, inputs) appends a message to the interpreter list or changes
\* endPoint or the segment buffer.
C25_QueriesReadOnly ==
    [][lastCall'.op \in Queries =>
          /\ interp_list' = interp_list
          /\ chained_points' = chained_points
          /\ canon'.endPoint = canon.endPoint]_vars

(***************************************************************************)
(* Rejected arguments                                                      *)
(***************************************************************************)
\* the call has changed neither the canonical state, nor the segment buffer,
\* nor the interpreter list, and has returned val
Rejected(val) ==
    /\ returned' = [kind |-> "value", val |-> val]
    /\ UNCHANGED <<canon, chained_points, interp_list>>

\* the index is none of an array of size elements
OutOfRange(index, size) == index < 0 \/ index >= size

\* C26: GET_EXTERNAL_TOOL_TABLE with pocket < 0 or pocket >= CANON_POCKETS_MAX
\* returns a zeroed entry with toolno = -1; GET_EXTERNAL_DIGITAL_INPUT and
\* GET_EXTERNAL_ANALOG_INPUT return -1 when the index is out of range or the
\* input timeout flag is set; WAIT with an index out of range returns -1;
\* none of these rejected calls appends a message, flushes the buffer or
\* changes the canonical state.
C26_BoundsRejection ==
    [][/\ lastCall'.op = "GET_EXTERNAL_TOOL_TABLE"
              /\ OutOfRange(lastCall'.cmd, CANON_POCKETS_MAX)
          => Rejected([toolno |-> -1, offset |-> ZeroPose, frontangle |-> 0,
                       backangle |-> 0, diameter |-> 0, orientation |-> 0])
       /\ lastCall'.op = "GET_EXTERNAL_DIGITAL_INPUT"
              /\ (OutOfRange(lastCall'.cmd, EMCMOT_MAX_DIO) \/ emcStatus.input_timeout = 1)
          => Rejected(-1)
       /\ lastCall'.op = "GET_EXTERNAL_ANALOG_INPUT"
              /\ (OutOfRange(lastCall'.cmd, EMCMOT_MAX_AIO) \/ emcStatus.input_timeout = 1)
          => Rejected(-1)
       /\ lastCall'.op = "WAIT"
              /\ OutOfRange(lastCall'.cmd.index,
                            IF lastCall'.cmd.input_type = "DIGITAL_INPUT"
                            THEN EMCMOT_MAX_DIO ELSE EMCMOT_MAX_AIO)
          => Rejected(-1)]_vars

(***************************************************************************)
(* SpecNurbs: NURBS_FEED_3D with and without travel and with U(L) overlays *)
(* of several sizes, and SPLINE_FEED of either form, among feeds, flushes   *)
(* and changes of the offsets, the feed rate and the tolerance             *)
(***************************************************************************)
NextNurbs ==
    \/ StraightFeed(MaxNurbsCalls, {XYZ(100, 0, 0)})
    \/ NurbsFeed3D(MaxNurbsCalls, {XYZ(0, 0, 0), XYZ(100, 0, 0)}, {0, 2, 4}, MaxNurbsCalls)
    \/ SetOriginOffsets(MaxNurbsCalls)
    \/ SplineFeed(MaxNurbsCalls)
    \/ SplineReject(MaxNurbsCalls, MaxNurbsCalls)
    \/ SplinePerturb
    \/ SetNaivecamTolerance(MaxNurbsCalls, {0})
    \/ SetFeedRate(MaxNurbsCalls, {0, 1200})
    \/ Finish(MaxNurbsCalls)

SpecNurbs == InitQuery /\ [][NextNurbs]_vars

(***************************************************************************)
(* The assertions of the envelope                                          *)
(***************************************************************************)
\* every per-axis limit and both external unit factors are strictly positive
PositiveLimits ==
    /\ \A n \in 0..8 : /\ emcStatus.max_velocity[n] > 0
                       /\ emcStatus.max_acceleration[n] > 0
                       /\ emcStatus.max_jerk[n] > 0
    /\ emcStatus.linearUnits.num > 0 /\ emcStatus.angularUnits.num > 0

\* C27: when every per-axis max velocity, acceleration and jerk and both
\* external unit factors are strictly positive, no assertion aborts the
\* process, whatever the calls and their targets, also for a straight move, an
\* arc or a NURBS_FEED_3D of two control points in which no axis moves.
C27_NoAssertionFails == PositiveLimits => returned.kind # "SIGABRT"

\* the world W with the max velocity of axis n lowered to v
LoweredMaxVelocity(W, n, v) == [W EXCEPT !.host.max_velocity[n] = v]

\* C28: for the same state and the same move (the buffered feeds about to be
\* flushed), lowering the max velocity of any single axis to a smaller
\* positive value never increases the ini_maxvel of the emitted move.
C28_EnvelopeMonotone ==
    chained_points # <<>> =>
        \A n \in 0..8, v \in {1, 50}, g \in Garbage, h \in Garbage :
            LET move(p) ==
                    (/\ v < emcStatus.max_velocity[n]
                     /\ linearMoveOf(Cur, p, g).emit
                     /\ linearMoveOf(LoweredMaxVelocity(Cur, n, v), p, h).emit)
                        => linearMoveOf(LoweredMaxVelocity(Cur, n, v), p, h).ini_maxvel
                               <= linearMoveOf(Cur, p, g).ini_maxvel
            IN  move(chained_points[Len(chained_points)].p)

(***************************************************************************)
(* The messages of NURBS_FEED_3D                                           *)
(***************************************************************************)
\* the messages of list after the first k ones
AfterFirst(list, k) == SubSeq(list, k + 1, Len(list))

\* C29: a NURBS_FEED_3D that returns, called with 2 control points, 3 knots,
\* the order 3 and the curve length 100, flushes the buffer and then appends
\* exactly 3 NURBS move messages, one per control point (with its weight) and
\* one for the knot beyond them (weight 0), each carrying the control-point
\* count 2, the knot count 3, the order and the curve length, whatever the
\* size of the U(L) overlay.
C29_NurbsMessages ==
    [][(ncalls' = ncalls + 1 /\ lastCall'.op = "NURBS_FEED_3D" /\ returned'.kind = "void") =>
           /\ chained_points' = <<>>
           /\ \E g \in Garbage :
                  LET flushed == flush_segments(Cur, g).list
                      nurbs == AfterFirst(interp_list', Len(flushed))
                  IN  /\ Len(interp_list') >= Len(flushed)
                      /\ SubSeq(interp_list', 1, Len(flushed)) = flushed
                      /\ Len(nurbs) = 3
                      /\ \A i \in 1..Len(nurbs) :
                             /\ nurbs[i].type = "EMC_TRAJ_NURBS_MOVE"
                             /\ nurbs[i].nurbs_block.nr_of_ctrl_pts = 2
                             /\ nurbs[i].nurbs_block.nr_of_knots = 3
                             /\ nurbs[i].nurbs_block.order = 3
                             /\ nurbs[i].nurbs_block.curve_len = 100
                             /\ (i = 3) = (nurbs[i].factor = 0)]_vars

(***************************************************************************)
(* The fits of SPLINE_FEED                                                 *)
(***************************************************************************)
\* C30: when every biarc fit succeeds, the quadratic SPLINE_FEED performs
\* exactly 2 fits and the cubic one exactly 4, and every fit issues two
\* segments: with a feed rate above zero the call appends, after the flush,
\* 4 arc messages for the quadratic form and 8 for the cubic form.
C30_SplineFits ==
    [][(ncalls' = ncalls + 1 /\ lastCall'.op = "SPLINE_FEED" /\ canon.linearFeedRate > 0) =>
           \E g \in Garbage :
               LET flushed == flush_segments(Cur, g).list
                   segments == AfterFirst(interp_list', Len(flushed))
               IN  /\ Len(interp_list') >= Len(flushed)
                   /\ SubSeq(interp_list', 1, Len(flushed)) = flushed
                   /\ Len(segments) = 2 * (IF lastCall'.cmd = "quadratic" THEN 2 ELSE 4)
                   /\ \A i \in 1..Len(segments) :
                          segments[i].motion = "EMC_MOTION_TYPE_ARC"]_vars

(***************************************************************************)
(* Claims about the rotary and secondary axes of buffered feeds            *)
(***************************************************************************)
\* the step is a STRAIGHT_FEED whose a, b, c or u, v, w differ from endPoint's
ChangedFeed ==
    /\ ncalls' = ncalls + 1
    /\ lastCall'.op = "STRAIGHT_FEED"
    /\ ~SameRotaries(lastCall'.cmd, canon.endPoint)

\* every buffered point has the a, b, c, u, v, w of endPoint
BufferedRotariesOfEndPoint ==
    \A i \in 1..Len(chained_points) : SameRotaries(chained_points[i].p, canon.endPoint)

\* C31: a STRAIGHT_FEED whose a, b, c or u, v, w differ from endPoint's is
\* not left pending: when it returns the buffer is empty and endPoint is the
\* candidate; and every point that stays buffered has the a, b, c, u, v, w
\* of endPoint.
C31_ChangedFeedFlushed ==
    [][/\ ChangedFeed => chained_points' = <<>> /\ canon'.endPoint = lastCall'.cmd
       /\ BufferedRotariesOfEndPoint']_vars

(***************************************************************************)
(* Claims about the envelope of a straight move                            *)
(***************************************************************************)
\* the world positions the envelope is asked for: moves of X, of X and Y, of
\* A, of U, of several axes at once, and the move to nowhere
EnvelopeTargets ==
    {XYZ(100, 0, 0), XYZ(200, 5, 0), [XYZ(100, 0, 0) EXCEPT !.a = 90],
     [XYZ(200, 5, 0) EXCEPT !.a = 90], [ZeroPose EXCEPT !.a = 90],
     [ZeroPose EXCEPT !.u = 10], [XYZ(0, 0, 50) EXCEPT !.a = 90, !.w = 20],
     canon.endPoint}

\* the axes of the mask that travel at least tiny from endPoint to p
MovingAxes(p) ==
    {ax \in AxisNames : /\ AxisNum[ax] \in emcStatus.axis_mask
                        /\ Abs(p[ax] - canon.endPoint[ax]) >= 1}

\* the least limit of the moving axes in internal units, 0 when none moves
LeastLimit(p, limit) ==
    LET of(ax) == IF ax \in AngularAxes
                  THEN FROM_EXT_ANG(Cur, emcAxisGetMax(Cur, limit, AxisNum[ax]))
                  ELSE FROM_EXT_LEN(Cur, emcAxisGetMax(Cur, limit, AxisNum[ax]))
    IN  IF MovingAxes(p) = {} THEN 0 ELSE MinOf({of(ax) : ax \in MovingAxes(p)})

\* C32: getStraightAcceleration and getStraightJerk return the least limit
\* of exactly the axes that are in the axis mask and travel at least tiny
\* (linear and angular axes alike, each in internal units), and 0 when no
\* such axis exists; the target coordinate of an axis absent from the mask
\* does not change the result.
C32_EnvelopeOverMovingAxes ==
    \A p \in EnvelopeTargets :
        /\ getStraightAcceleration(Cur, p) = LeastLimit(p, "Acceleration")
        /\ getStraightJerk(Cur, p) = LeastLimit(p, "Jerk")
        /\ \A ax \in AxisNames :
               AxisNum[ax] \notin emcStatus.axis_mask =>
                   /\ getStraightAcceleration(Cur, [p EXCEPT ![ax] = @ + 7])
                          = getStraightAcceleration(Cur, p)
                   /\ getStraightJerk(Cur, [p EXCEPT ![ax] = @ + 7])
                          = getStraightJerk(Cur, p)

\* a machine with the axis A and without U has moved to X = 1 and asks for a
\* move of X, Y and A: the acceleration is Y's limit (400 user units, 200
\* internal), also when the target names a U
C32_Witness ==
    /\ axis_valid(Cur, 3) /\ ~axis_valid(Cur, 6)
    /\ canon.endPoint.x = 100
    /\ Len(interp_list) > 0
    /\ getStraightAcceleration(Cur, [XYZ(200, 5, 0) EXCEPT !.a = 90]) = 200
    /\ getStraightAcceleration(Cur, [XYZ(200, 5, 0) EXCEPT !.a = 90, !.u = 10]) = 200

\* the flags say which kinds of axes travel from the end point of W to p
FlagsTell(W, p) ==
    /\ canon'.cartesian_move = cartesian_move_of(W, p)
    /\ canon'.angular_move = angular_move_of(W, p)

\* C33: after a dispatch that computes an envelope (a flushed feed, a
\* traverse, a probe, a rigid tap, an arc, a NURBS_FEED_3D), cartesian_move is
\* set iff some linear axis of the machine moves and angular_move iff some
\* angular axis of the machine moves, so both are set for a move of both
\* kinds.  The move starts where the flush of the pending feeds ends; a NURBS
\* move runs from its first control point, the program's origin.
C33_FlagsTellTheMove ==
    [][ncalls' = ncalls + 1 /\ returned'.kind = "void" =>
          /\ lastCall'.op \in {"STRAIGHT_TRAVERSE", "STRAIGHT_PROBE"}
                 => FlagsTell(AfterFlush, lastCall'.cmd)
          /\ lastCall'.op = "FINISH" /\ chained_points # <<>>
                 => FlagsTell(Cur, LastPoint.p)
          /\ lastCall'.op = "ARC_FEED" /\ AppendedOf("EMC_MOTION_TYPE_ARC") # <<>>
                 => FlagsTell(AfterFlush, lastCall'.cmd)
          /\ lastCall'.op = "RIGID_TAP" /\ Len(interp_list') > Len(interp_list)
                 /\ LastAppended.type = "EMC_TRAJ_RIGID_TAP"
                 => FlagsTell(AfterFlush, from_ext_pose(Cur, LastAppended.end))
          /\ lastCall'.op = "NURBS_FEED_3D"
                 => FlagsTell(canonUpdateEndPoint(Cur, World(ZeroPose)), lastCall'.cmd)]_vars

(***************************************************************************)
(* Claims about the retries of SPLINE_FEED                                 *)
(***************************************************************************)
\* a step from the label perturb of a SPLINE_FEED whose fit was rejected
Retry == returned.kind = "running" /\ returned'.kind = "running"

\* C34: SPLINE_FEED terminates: when a biarc fit is rejected the step is
\* adjusted and the retry fits to a sample point and tangent recomputed from
\* the adjusted parameter t, so the arguments of the retried fit differ from
\* those of the rejected one (a fit with the same arguments is rejected again,
\* without end).
C34_RetryDiffers ==
    [][Retry => /\ returned'.val.t # returned.val.t
                /\ returned'.val.fit # returned.val.fit]_vars

(***************************************************************************)
(* Claims about the numerator of constant surface speed                    *)
(***************************************************************************)
\* the numerator the spindle call named op would leave from the world W
CssNumeratorOf(op, W) ==
    IF op = "START_SPINDLE_CLOCKWISE" THEN START_SPINDLE_CLOCKWISE(W, 0).canon.css_numerator
    ELSE START_SPINDLE_COUNTERCLOCKWISE(W, 0).canon.css_numerator

\* C35: direction only toggles the sign of the numerator: in CSS mode, from
\* the same spindleSpeed, lengthUnits and external length unit, the
\* css_numerator left by START_SPINDLE_CLOCKWISE is the negation of the one
\* START_SPINDLE_COUNTERCLOCKWISE leaves (and the other way round), and
\* SET_SPINDLE_SPEED leaves one of the same magnitude as both.
C35_DirectionTogglesSign ==
    [][ncalls' = ncalls + 1 /\ canon.css_maximum # 0 =>
          /\ lastCall'.op = "START_SPINDLE_CLOCKWISE"
                 => canon'.css_numerator
                        = -CssNumeratorOf("START_SPINDLE_COUNTERCLOCKWISE", Cur)
          /\ lastCall'.op = "START_SPINDLE_COUNTERCLOCKWISE"
                 => canon'.css_numerator = -CssNumeratorOf("START_SPINDLE_CLOCKWISE", Cur)
          /\ lastCall'.op = "SET_SPINDLE_SPEED"
                 => LET W == [Cur EXCEPT !.canon.spindleSpeed = canon'.spindleSpeed]
                    IN  /\ Abs(canon'.css_numerator)
                               = Abs(CssNumeratorOf("START_SPINDLE_CLOCKWISE", W))
                        /\ Abs(canon'.css_numerator)
                               = Abs(CssNumeratorOf("START_SPINDLE_COUNTERCLOCKWISE", W))]_vars

(***************************************************************************)
(* Claims about the fate of a pending feed                                 *)
(***************************************************************************)
\* the step takes the pending feeds out of the segment buffer
BufferTaken ==
    /\ chained_points # <<>>
    /\ \/ Len(chained_points') < Len(chained_points)
       \/ SubSeq(chained_points', 1, Len(chained_points)) # chained_points

\* C36: no pending feed is lost: with a feed rate and axis limits that are
\* not zero and a last buffered point some axis travels to, every call other
\* than INIT_CANON that returns and takes the pending feeds out of the segment
\* buffer (FINISH, a flushing command, GET_EXTERNAL_POSITION) appends the
\* linear move that ends at the last buffered point.
C36_NoFeedLost ==
    [][/\ ncalls' = ncalls + 1
       /\ returned'.kind \in {"void", "value"}
       /\ lastCall'.op # "INIT_CANON"
       /\ BufferTaken
       /\ MoveIsSent(Cur, LastPoint.p)
       => /\ ListGrows
          /\ \E k \in 1..Len(Appended) :
                 /\ Appended[k].type = "EMC_TRAJ_LINEAR_MOVE"
                 /\ Appended[k].motion = "EMC_MOTION_TYPE_FEED"
                 /\ Appended[k].end = to_ext_pose(Cur, LastPoint.p)]_vars

(***************************************************************************)
(* SpecUnits: feeds, flushes and the query of the angle unit on a machine  *)
(* whose host reports the external angle unit 0.  INIT_CANON and the       *)
(* set-up convert no angle; a flush converts the a, b and c of the move    *)
(***************************************************************************)
InitUnits ==
    \E h \in {HostXYZ, HostXYZA}, u \in {0, 1} :
        Start(Preamble([h EXCEPT !.angularUnits = [num |-> u, den |-> 1]], 10, 600))

\* a STRAIGHT_FEED that see_segment only buffers: it flushes nothing
FeedBuffered(max, targets) ==
    /\ StraightFeed(max, targets)
    /\ Len(chained_points') = Len(chained_points) + 1

\* FINISH.  With pending feeds and the angle unit 0, flush_segments reaches
\* TO_EXT_ANG(a): GET_EXTERNAL_ANGLE_UNITS reports the zero unit with
\* CANON_ERROR, which begins with flush_segments, and the buffer, cleared on
\* the last line of flush_segments only, is as it was: the calls nest until
\* the stack is exhausted and the process ends (ncalls = last)
FinishUnits(max, last) ==
    /\ ncalls < max
    /\ IF chained_points # <<>> /\ emcStatus.angularUnits.num = 0
       THEN /\ ncalls' = last
            /\ lastCall' = [op |-> "FINISH", cmd |-> canon.endPoint, line |-> NextLine]
            /\ returned' = [kind |-> "SIGSEGV", val |-> 0]
            /\ UNCHANGED <<canon, chained_points, interp_list, interp_line, emcStatus,
                           probefile, last_probed_position>>
       ELSE \E g \in Garbage : Return(FINISH(Cur, g), "FINISH", canon.endPoint)

\* GET_EXTERNAL_ANGLE_UNITS: the host's unit; for the unit 0, one operator
\* error and 1.0 when nothing is pending, and the nest of flushes of
\* FinishUnits when a feed is
GetExternalAngleUnits(max, last) ==
    /\ ncalls < max
    /\ IF emcStatus.angularUnits.num # 0
       THEN Returns(Cur, "GET_EXTERNAL_ANGLE_UNITS", canon.endPoint,
                    GET_EXTERNAL_ANGLE_UNITS(Cur))
       ELSE IF chained_points = <<>>
       THEN Returns(CANON_ERROR(Cur, 0), "GET_EXTERNAL_ANGLE_UNITS", canon.endPoint,
                    GET_EXTERNAL_ANGLE_UNITS(Cur))
       ELSE /\ ncalls' = last
            /\ lastCall' = [op |-> "GET_EXTERNAL_ANGLE_UNITS", cmd |-> canon.endPoint,
                            line |-> NextLine]
            /\ returned' = [kind |-> "SIGSEGV", val |-> 0]
            /\ UNCHANGED <<canon, chained_points, interp_list, interp_line, emcStatus>>
    /\ UNCHANGED <<probefile, last_probed_position>>

NextUnits ==
    \/ FeedBuffered(MaxUnitsCalls, Targets)
    \/ FinishUnits(MaxUnitsCalls, MaxUnitsCalls)
    \/ GetExternalAngleUnits(MaxUnitsCalls, MaxUnitsCalls)
    \/ SetNaivecamTolerance(MaxUnitsCalls, {0, 10})
    \/ CanonUpdateEndPoint(MaxUnitsCalls, {XYZ(100, 0, 50)})

SpecUnits == InitUnits /\ [][NextUnits]_vars

\* the host reports an external length or angle unit of zero
ZeroUnits == emcStatus.linearUnits.num = 0 \/ emcStatus.angularUnits.num = 0

\* C37: every dispatch call returns also when the host reports an external
\* length or angle unit of zero: the report of the zero unit, which flushes
\* the segment buffer, does not nest flushes of a buffer that is still not
\* empty until the process ends.
C37_EveryCallReturns == ZeroUnits => returned.kind \in {"void", "value"}

\* the getter appends one operator error for the zero unit and returns 1.0
\* (it holds while no feed is pending)
GetterReportsOnce ==
    [][/\ ncalls' = ncalls + 1
       /\ lastCall'.op = "GET_EXTERNAL_ANGLE_UNITS"
       /\ ZeroUnits /\ returned'.kind = "value"
       => /\ returned'.val = [num |-> 1, den |-> 1]
          /\ ListGrows
          /\ Len(Appended) = 1
          /\ Appended[1].type = "EMC_OPERATOR_ERROR"]_vars

(***************************************************************************)
(* Claims about the synched flag around a traverse and a tool change       *)
(***************************************************************************)
\* the spindle-sync messages a step appends
SyncMsgs == SelectSeq(Appended, LAMBDA m : m.type = "EMC_TRAJ_SET_SPINDLESYNC")

\* the step is a STRAIGHT_TRAVERSE or a CHANGE_TOOL that has returned
TraverseOrToolChange ==
    /\ ncalls' = ncalls + 1
    /\ lastCall'.op \in {"STRAIGHT_TRAVERSE", "CHANGE_TOOL"}

\* C38: STRAIGHT_TRAVERSE and the tool-change move of CHANGE_TOOL leave the
\* synched flag as they found it and append spindle-sync stop and start
\* messages only if synchronisation was on at entry: called with synched
\* false they append no spindle-sync message and return with synched false,
\* whatever feed_mode is.
C38_SynchedKept ==
    [][TraverseOrToolChange =>
          /\ canon'.synched = canon.synched
          /\ ~canon.synched => SyncMsgs = <<>>]_vars

\* C38 as the code has it: the stop and the start are appended around the
\* move when canon.feed_mode is not zero at entry, and synched is then on at
\* the return, also when it was off at entry; with feed_mode zero (and in a
\* CHANGE_TOOL without a tool change position) no spindle-sync message is
\* appended and synched is left as it was.  feed_mode is never changed.
C38_SynchedByFeedMode ==
    [][TraverseOrToolChange =>
          LET moves == \/ lastCall'.op = "STRAIGHT_TRAVERSE"
                       \/ emcStatus.HAVE_TOOL_CHANGE_POSITION
              stopped == moves /\ canon.feed_mode # 0
          IN  /\ canon'.synched = (stopped \/ canon.synched)
              /\ canon'.feed_mode = canon.feed_mode
              /\ Kinds(SyncMsgs) = IF stopped THEN <<"stop", "start">> ELSE <<>>]_vars

\* SET_FEED_MODE(1) has left synched off, and the tool change that follows it
\* has appended the stop, its move and the start and has returned with
\* synched on: no start was appended before this call
C38_Witness ==
    /\ lastCall.op = "CHANGE_TOOL"
    /\ canon.feed_mode # 0 /\ canon.synched
    /\ Len(interp_list) >= 4
    /\ Kinds(SubSeq(interp_list, Len(interp_list) - 3, Len(interp_list) - 1))
           = <<"stop", "other", "start">>
    /\ interp_list[Len(interp_list) - 2].motion = "EMC_MOTION_TYPE_TOOLCHANGE"
    /\ \A i \in 1..(Len(interp_list) - 2) :
           interp_list[i].type = "EMC_TRAJ_SET_SPINDLESYNC" => interp_list[i].at = ncalls

(***************************************************************************)
(* Claims about the end point and the moves emitted                        *)
(***************************************************************************)
\* the feed, traverse, probe, arc, tool-change and NURBS moves a step appends
MovesAppended ==
    SelectSeq(Appended, LAMBDA m : m.type \in MotionTypes \ {"EMC_TRAJ_RIGID_TAP"})

\* the step is a call that has returned and is none of the calls that set
\* the end point without a move
MovingCall ==
    /\ ncalls' = ncalls + 1
    /\ returned'.kind \in {"void", "value"}
    /\ lastCall'.op \notin {"INIT_CANON", "GET_EXTERNAL_POSITION", "CANON_UPDATE_END_POINT"}

\* C39: endPoint never advances to a position for which no move was emitted:
\* a call other than INIT_CANON, GET_EXTERNAL_POSITION and
\* CANON_UPDATE_END_POINT changes endPoint only if it appends a feed, traverse,
\* probe, arc, tool-change or NURBS move, and endPoint is then the end of the
\* last of them; a move suppressed because its vel or acc is zero leaves
\* endPoint unchanged.
C39_EndPointFollowsMoves ==
    [][MovingCall =>
          /\ canon'.endPoint # canon.endPoint => MovesAppended # <<>>
          /\ MovesAppended # <<>> =>
                 MovesAppended[Len(MovesAppended)].end
                     = to_ext_pose(Cur', canon'.endPoint)]_vars

====
